---------------------------- MODULE Spec2Model ----------------------------
(***************************************************************************)
(* referNconnect: employee identity matching, field merge and the admin    *)
(* import-merge driver (src/src/utils/helpers.js, src/src/admin/admin.js,  *)
(* Firebase service).                                                      *)
(*                                                                         *)
(* JavaScript strings are sequences of one-character strings, so that      *)
(* toLowerCase, trim, replace and includes are computed character by       *)
(* character.  null/undefined is the value Null.  Ids are naturals, 0      *)
(* standing for an absent (falsy) id.                                      *)
(***************************************************************************)
EXTENDS Integers, Sequences, FiniteSets, TLC

VARIABLES
    inp,        \* arguments of the helper under test (pure-function specs)
    out,        \* its result, [op |-> "none"] before the call
    store,      \* Firestore collection "companies", in getDocs order
    parsedData, \* admin.js module variable parsedData (<<>> when null)
    imp,        \* the importToFirebase run: position, locals, pending write
    hist,       \* the finished importToFirebase runs, oldest first
    nextId,     \* ids handed out so far by generateId / Firestore auto-id
    parses,     \* number of processWithAI calls that have resolved
    dedup,      \* the deduplicateDatabase run: position, locals, pending write
    dhist       \* the finished deduplicateDatabase runs, oldest first

vars == <<inp, out, store, parsedData, imp, hist, nextId, parses, dedup, dhist>>
driverVars == <<store, parsedData, imp, hist, nextId, parses, dedup, dhist>>

----------------------------------------------------------------------------
(* JavaScript string primitives *)

Null == <<"null">>

UpperChars == <<"A","B","C","D","E","F","G","H","I","J","K","L","M",
                "N","O","P","Q","R","S","T","U","V","W","X","Y","Z">>
LowerChars == <<"a","b","c","d","e","f","g","h","i","j","k","l","m",
                "n","o","p","q","r","s","t","u","v","w","x","y","z">>

DigitChars == {"0","1","2","3","4","5","6","7","8","9"}

\* \s of the regular expressions, as far as the inputs use it
WhiteChars == {" ", "\t", "\n", "\r"}

\* the punctuation class of normalizeString (its backquote, which the
\* inputs never contain, has no string literal here)
PunctChars == {".", ",", "/", "#", "!", "$", "%", "^", "&", "*", ";", ":",
               "{", "}", "=", "-", "_", "~", "(", ")"}

toLowerChar(c) ==
    IF \E i \in 1..26 : UpperChars[i] = c
    THEN LowerChars[CHOOSE i \in 1..26 : UpperChars[i] = c]
    ELSE c

toLowerCase(s) == [i \in 1..Len(s) |-> toLowerChar(s[i])]

RECURSIVE trimStart(_)
trimStart(s) ==
    IF s # <<>> /\ Head(s) \in WhiteChars THEN trimStart(Tail(s)) ELSE s

RECURSIVE trimEnd(_)
trimEnd(s) ==
    IF s # <<>> /\ s[Len(s)] \in WhiteChars
    THEN trimEnd(SubSeq(s, 1, Len(s) - 1))
    ELSE s

trim(s) == trimEnd(trimStart(s))

\* s.replace(/[set]/g, '')
removeChars(s, set) == SelectSeq(s, LAMBDA c : c \notin set)

\* s.replace(/\s+/g, ' ')
RECURSIVE collapseWhitespace(_)
collapseWhitespace(s) ==
    IF s = <<>> THEN <<>>
    ELSE IF Head(s) \in WhiteChars
         THEN <<" ">> \o collapseWhitespace(trimStart(s))
         ELSE <<Head(s)>> \o collapseWhitespace(Tail(s))

startsWithAt(s, i, p) ==
    /\ i + Len(p) - 1 <= Len(s)
    /\ SubSeq(s, i, i + Len(p) - 1) = p

\* String.prototype.includes
includes(s, sub) == \E i \in 1..(Len(s) + 1) : startsWithAt(s, i, sub)

\* s.replace(re, '') for a regular expression without the g flag whose
\* language is the finite set alts, no member a prefix of another: the
\* leftmost occurrence is removed
replaceFirst(s, alts) ==
    LET hits == {i \in 1..Len(s) : \E p \in alts : startsWithAt(s, i, p)}
    IN  IF hits = {} THEN s
        ELSE LET i == CHOOSE k \in hits : \A j \in hits : k <= j
                 p == CHOOSE q \in alts : startsWithAt(s, i, q)
             IN  SubSeq(s, 1, i - 1) \o SubSeq(s, i + Len(p), Len(s))

\* String(v).replace(/\D/g, '')
digitsOf(v) == SelectSeq(v, LAMBDA c : c \in DigitChars)

----------------------------------------------------------------------------
(* helpers.js *)

S_na == <<"n","/","a">>
S_dash == <<"-">>
S_noEmail == <<"n","o"," ","e","m","a","i","l">>
S_noPhone == <<"n","o"," ","p","h","o","n","e">>
S_unknown == <<"u","n","k","n","o","w","n">>
S_noEmailFound == S_noEmail \o <<" ","f","o","u","n","d">>
S_notRevealed == <<"n","o","t"," ","r","e","v","e","a","l","e","d">>

\* isEmpty comparing the raw value: no trim, no lower-casing
isEmpty_rawTokens(value) ==
    IF value = Null THEN TRUE
    ELSE \/ value = <<>>
         \/ value = S_na
         \/ value = S_dash
         \/ value = S_noEmail
         \/ value = S_noPhone
         \/ value = S_unknown
         \/ value = S_noEmailFound
         \/ includes(value, S_notRevealed)
         \/ includes(value, S_noPhone)

isEmpty(value) ==
    IF value = Null THEN TRUE
    ELSE LET v == toLowerCase(trim(value))
         IN  \/ v = <<>>
             \/ v = S_na
             \/ v = S_dash
             \/ v = S_noEmail
             \/ v = S_noPhone
             \/ v = S_unknown
             \/ v = S_noEmailFound
             \/ includes(v, S_notRevealed)
             \/ includes(v, S_noPhone)

normalizeString(str) ==
    IF str = Null \/ str = <<>> THEN <<>>
    ELSE collapseWhitespace(removeChars(trim(toLowerCase(str)), PunctChars))

S_linkedinIn == <<"l","i","n","k","e","d","i","n",".","c","o","m","/","i","n","/">>
S_http == <<"h","t","t","p",":","/","/">>
S_https == <<"h","t","t","p","s",":","/","/">>
S_www == <<"w","w","w",".">>

\* the language of /https?:\/\/(www\.)?linkedin\.com\/in\//
LinkedInUrlPrefixes ==
    {S_http \o S_linkedinIn, S_https \o S_linkedinIn,
     S_http \o S_www \o S_linkedinIn, S_https \o S_www \o S_linkedinIn}

stripTrailingSlash(s) ==
    IF s # <<>> /\ s[Len(s)] = "/" THEN SubSeq(s, 1, Len(s) - 1) ELSE s

normalizeLinkedIn(url) ==
    IF isEmpty(url) THEN <<>>
    ELSE replaceFirst(
             replaceFirst(stripTrailingSlash(trim(toLowerCase(url))),
                          LinkedInUrlPrefixes),
             {S_linkedinIn})


\* the seven fields mergeEmployeeData resolves, in its order
MergeFields == <<"firstName", "lastName", "email", "phone", "jobTitle",
                 "linkedin", "location">>

\* mergeField comparing the raw phone strings instead of their digits
mergeField_rawPhone(field, val1, val2) ==
    IF isEmpty(val1) /\ ~isEmpty(val2) THEN val2
    ELSE IF ~isEmpty(val1) /\ ~isEmpty(val2)
         THEN IF field = "phone"
              THEN IF val2 # val1 THEN val2 ELSE val1
              ELSE IF /\ field # "firstName"
                      /\ field # "lastName"
                      /\ Len(val2) > Len(val1)
                   THEN val2
                   ELSE val1
         ELSE val1

\* mergeField taking source's value also when the lengths are equal
mergeField_longerOrEqual(field, val1, val2) ==
    IF isEmpty(val1) /\ ~isEmpty(val2) THEN val2
    ELSE IF ~isEmpty(val1) /\ ~isEmpty(val2)
         THEN IF field = "phone"
              THEN IF digitsOf(val2) # digitsOf(val1) THEN val2 ELSE val1
              ELSE IF /\ field # "firstName"
                      /\ field # "lastName"
                      /\ Len(val2) >= Len(val1)
                   THEN val2
                   ELSE val1
         ELSE val1

\* mergeField with the longer-string rule applied to the name fields too
mergeField_longerName(field, val1, val2) ==
    IF isEmpty(val1) /\ ~isEmpty(val2) THEN val2
    ELSE IF ~isEmpty(val1) /\ ~isEmpty(val2)
         THEN IF field = "phone"
              THEN IF digitsOf(val2) # digitsOf(val1) THEN val2 ELSE val1
              ELSE IF Len(val2) > Len(val1) THEN val2 ELSE val1
         ELSE val1

\* mergeField taking source's value whenever target's is not kept by the
\* both-non-empty rules, an empty source value included
mergeField_emptyOverwrites(field, val1, val2) ==
    IF isEmpty(val1) THEN val2
    ELSE IF ~isEmpty(val2)
         THEN IF field = "phone"
              THEN IF digitsOf(val2) # digitsOf(val1) THEN val2 ELSE val1
              ELSE IF /\ field # "firstName"
                      /\ field # "lastName"
                      /\ Len(val2) > Len(val1)
                   THEN val2
                   ELSE val1
         ELSE val2

\* one field of mergeEmployeeData's forEach body
mergeField(field, val1, val2) ==
    IF isEmpty(val1) /\ ~isEmpty(val2) THEN val2
    ELSE IF ~isEmpty(val1) /\ ~isEmpty(val2)
         THEN IF field = "phone"
              THEN IF digitsOf(val2) # digitsOf(val1) THEN val2 ELSE val1
              ELSE IF /\ field # "firstName"
                      /\ field # "lastName"
                      /\ Len(val2) > Len(val1)
                   THEN val2
                   ELSE val1
         ELSE val1

\* mergeEmployeeData starting from a copy of source instead of target
mergeEmployeeData_copyOfSource(target, source) ==
    [f \in DOMAIN source |->
        IF \E k \in 1..Len(MergeFields) : MergeFields[k] = f
        THEN mergeField(f, target[f], source[f])
        ELSE source[f]]

mergeEmployeeData(target, source) ==
    [f \in DOMAIN target |->
        IF \E k \in 1..Len(MergeFields) : MergeFields[k] = f
        THEN mergeField(f, target[f], source[f])
        ELSE target[f]]

\* 1. Email match
emailTest(newEmp, existingEmp) ==
    /\ ~isEmpty(newEmp.email)
    /\ ~isEmpty(existingEmp.email)
    /\ trim(toLowerCase(newEmp.email)) = trim(toLowerCase(existingEmp.email))

\* 2. Phone match
phoneTest(newEmp, existingEmp) ==
    /\ ~isEmpty(newEmp.phone)
    /\ ~isEmpty(existingEmp.phone)
    /\ digitsOf(newEmp.phone) # <<>>
    /\ digitsOf(newEmp.phone) = digitsOf(existingEmp.phone)

\* 3. LinkedIn match
linkedinTest(newEmp, existingEmp) ==
    /\ ~isEmpty(newEmp.linkedin)
    /\ ~isEmpty(existingEmp.linkedin)
    /\ normalizeLinkedIn(newEmp.linkedin) # <<>>
    /\ normalizeLinkedIn(newEmp.linkedin) = normalizeLinkedIn(existingEmp.linkedin)

\* `${first} ${last}`.trim() of the normalized names
fullName(emp) ==
    trim(normalizeString(emp.firstName) \o <<" ">> \o normalizeString(emp.lastName))

\* 4. Name + Title fuzzy match
nameTitleTest(newEmp, existingEmp) ==
    LET nFull == fullName(newEmp)
        eFull == fullName(existingEmp)
        nTitle == normalizeString(newEmp.jobTitle)
        eTitle == normalizeString(existingEmp.jobTitle)
        titlesMatch ==
            \/ nTitle = eTitle
            \/ /\ nTitle # <<>>
               /\ eTitle # <<>>
               /\ (includes(nTitle, eTitle) \/ includes(eTitle, nTitle))
    IN  /\ nFull = eFull
        /\ nFull # <<>>
        /\ (titlesMatch \/ isEmpty(nTitle) \/ isEmpty(eTitle))

\* the callback given to employeeList.find
matchesEmployee(newEmp, existingEmp) ==
    \/ emailTest(newEmp, existingEmp)
    \/ phoneTest(newEmp, existingEmp)
    \/ linkedinTest(newEmp, existingEmp)
    \/ nameTitleTest(newEmp, existingEmp)

\* find replaced by a search from the end of the list
findFrom_last(items, newEmp, i) ==
    LET hits == {k \in i..Len(items) : matchesEmployee(newEmp, items[k])}
    IN  IF hits = {} THEN 0 ELSE CHOOSE k \in hits : \A j \in hits : j <= k

\* find replaced by a search that ranks an email match above the others
findFrom_emailFirst(items, newEmp, i) ==
    LET byEmail == {k \in i..Len(items) : emailTest(newEmp, items[k])}
        hits == {k \in i..Len(items) : matchesEmployee(newEmp, items[k])}
        first(S) == CHOOSE k \in S : \A j \in S : k <= j
    IN  IF byEmail # {} THEN first(byEmail)
        ELSE IF hits # {} THEN first(hits) ELSE 0

\* Array.prototype.find from position i on: the position of the first
\* element the callback accepts, 0 when there is none
RECURSIVE findFrom(_, _, _)
findFrom(items, newEmp, i) ==
    IF i > Len(items) THEN 0
    ELSE IF matchesEmployee(newEmp, items[i]) THEN i
         ELSE findFrom(items, newEmp, i + 1)

\* employeeList is [isArray, items]; the matching record is named by its
\* position in the list (the callers look it up again with indexOf), 0 is
\* null
findMatchingEmployee(employeeList, newEmp) ==
    IF ~employeeList.isArray THEN 0
    ELSE findFrom(employeeList.items, newEmp, 1)

Arr(items) == [isArray |-> TRUE, items |-> items]


----------------------------------------------------------------------------
(* Employee records and the inputs of the helper specifications *)

Emp(id, firstName, lastName, email, phone, jobTitle, linkedin, location) ==
    [id |-> id, firstName |-> firstName, lastName |-> lastName,
     email |-> email, phone |-> phone, jobTitle |-> jobTitle,
     linkedin |-> linkedin, location |-> location, phoneLocked |-> FALSE]

\* an employee record with every field absent
Blank == Emp(0, Null, Null, Null, Null, Null, Null, Null)

Named(firstName, lastName) ==
    [Blank EXCEPT !.firstName = firstName, !.lastName = lastName]

W_John == <<"J","o","h","n">>
W_Doe == <<"D","o","e">>
W_Jon == <<"J","o","n">>
W_Smith == <<"S","m","i","t","h">>
W_Ann == <<"A","n","n">>
W_Lee == <<"L","e","e">>
W_Bob == <<"B","o","b">>
W_Ray == <<"R","a","y">>
W_Robert == <<"R","o","b","e","r","t">>
W_Engineer == <<"E","n","g","i","n","e","e","r">>
W_SeniorEngineer == <<"S","e","n","i","o","r"," ","E","n","g","i","n","e","e","r">>
W_Sales == <<"S","a","l","e","s">>
W_Manager == <<"M","a","n","a","g","e","r">>
W_TeamMember == <<"T","e","a","m"," ","M","e","m","b","e","r">>
W_Eng == <<"E","n","g">>
W_Dev == <<"D","e","v">>
W_johnAtX == <<"j","o","h","n","@","x",".","i","o">>
W_JohnAtXPadded == <<" ","J","o","h","n","@","X",".","i","o"," ">>
W_jdAtY == <<"j","d","@","y",".","i","o">>
W_annAtX == <<"a","n","n","@","x",".","i","o">>
W_phoneIntl == <<"+","1"," ","(","5","5","5",")"," ","1","2","3","-","4","5","6","7">>
W_phoneDigits == <<"1","5","5","5","1","2","3","4","5","6","7">>
W_phone1 == <<"5","5","5","-","1","1","1","1">>
W_phone1Alt == <<"(","5","5","5",")"," ","1","1","1","1">>
W_phone2 == <<"5","5","5","-","2","2","2","2">>
W_phoneWords == <<"c","a","l","l"," ","m","e">>
W_noPhoneListed == <<"n","o"," ","p","h","o","n","e"," ","l","i","s","t","e","d">>
W_bobray == <<"b","o","b","r","a","y">>
W_bobrayUrl == <<"h","t","t","p","s",":","/","/","w","w","w",".","l","i","n","k","e","d","i","n",".","c","o","m","/","i","n","/","b","o","b","r","a","y","/">>
W_jdoe == <<"j","d","o","e">>
W_asmith == <<"a","s","m","i","t","h">>
W_JDoeMixed == <<"H","T","T","P","S",":","/","/","W","W","W",".","L","i","n","k","e","d","I","n",".","c","o","m","/","i","n","/","J","D","o","e">>
W_Pune == <<"P","u","n","e">>
W_PuneIndia == <<"P","u","n","e",","," ","I","n","d","i","a">>
W_Acme == <<"A","c","m","e">>
W_ACME == <<"A","C","M","E">>
W_Beta == <<"B","e","t","a">>
W_beta == <<"b","e","t","a">>
W_acmeCom == <<"a","c","m","e",".","c","o","m">>
W_acmeIo == <<"a","c","m","e",".","i","o">>
W_Pat == <<"P","a","t">>
W_Kim == <<"K","i","m">>
W_patAtX == <<"p","a","t","@","x",".","i","o">>

\* longest list findMatchingEmployee is given in SpecMatch
MaxList == 2

NoCall == [op |-> "none"]

\* no persistence call in flight
NoWrite == [kind |-> "none", id |-> 0, name |-> <<>>, domain |-> <<>>,
            employees |-> <<>>]

\* importToFirebase not running
NoRun ==
    [pc |-> "idle", batch |-> <<>>, existing |-> <<>>, i |-> 0,
     pending |-> NoWrite, steps |-> <<>>, issued |-> <<>>,
     updated |-> 0, created |-> 0, employeesUpdated |-> 0,
     log |-> "none", startStore |-> <<>>]

\* deduplicateDatabase not running
NoDedup ==
    [pc |-> "idle", companies |-> <<>>, i |-> 0, pending |-> NoWrite,
     folds |-> <<>>, issued |-> <<>>, removed |-> 0, totalMergedCount |-> 0,
     log |-> "none", startStore |-> <<>>]

\* state of the driver while a helper is exercised on its own
DriverIdle ==
    /\ store = <<>>
    /\ parsedData = <<>>
    /\ imp = NoRun
    /\ hist = <<>>
    /\ nextId = 0
    /\ parses = 0
    /\ dedup = NoDedup
    /\ dhist = <<>>

NotArray == [isArray |-> FALSE, items |-> <<>>]

\* the lists of at most n different members of S
ListsUpTo(S, n) ==
    UNION {{l \in [1..m -> S] : \A a, b \in 1..m : a # b => l[a] # l[b]} :
              m \in 0..n}

\* employees given to findMatchingEmployee in SpecMatch
MatchPool ==
    {[Named(W_John, W_Doe) EXCEPT !.email = W_johnAtX, !.jobTitle = W_Engineer],
     [Named(W_John, W_Doe) EXCEPT !.email = <<>>, !.jobTitle = W_SeniorEngineer],
     [Named(W_Jon, W_Smith) EXCEPT !.email = W_JohnAtXPadded, !.jobTitle = W_Sales],
     [Named(W_John, W_Doe) EXCEPT !.jobTitle = W_Sales],
     [Named(W_John, W_Doe) EXCEPT !.email = W_jdAtY],
     [Named(W_Ann, W_Lee) EXCEPT !.phone = W_phoneIntl],
     [Named(W_Bob, W_Ray) EXCEPT !.phone = W_phoneDigits, !.linkedin = W_bobrayUrl],
     [Named(W_Robert, W_Ray) EXCEPT !.linkedin = W_bobray, !.jobTitle = W_Manager],
     [Named(<<>>, <<>>) EXCEPT !.email = S_na, !.phone = W_phoneWords,
                               !.jobTitle = W_TeamMember],
     [Named(W_Ann, <<>>) EXCEPT !.email = W_annAtX, !.jobTitle = W_Manager]}

InitMatch ==
    /\ inp \in [fn : {"find"}, list : {Arr(<<>>), NotArray}, emp : MatchPool]
    /\ out = NoCall
    /\ DriverIdle

\* one more record in the list the caller passes
PushExisting(e) ==
    /\ inp.fn = "find"
    /\ out.op = "none"
    /\ inp.list.isArray
    /\ Len(inp.list.items) < MaxList
    /\ inp' = [inp EXCEPT !.list.items = Append(@, e)]
    /\ UNCHANGED <<out, driverVars>>

\* findMatchingEmployee(employeeList, newEmp)
CallFind ==
    /\ inp.fn = "find"
    /\ out.op = "none"
    /\ out' = [op |-> "find", idx |-> findMatchingEmployee(inp.list, inp.emp)]
    /\ UNCHANGED <<inp, driverVars>>

NextMatch ==
    \/ \E e \in MatchPool : PushExisting(e)
    \/ CallFind

SpecMatch == InitMatch /\ [][NextMatch]_vars


\* values that are empty in the matcher's sense: absent, blank, and the
\* placeholder tokens in several spellings
PlaceholderValues ==
    {Null, <<>>, <<" "," ">>,
     S_na, <<" ","N","/","A"," ">>, S_dash, S_unknown, <<"U","n","k","n","o","w","n">>,
     S_noEmail, S_noPhone, S_noEmailFound,
     <<"E","m","a","i","l"," ","n","o","t"," ","r","e","v","e","a","l","e","d">>, <<"n","o"," ","p","h","o","n","e"," ","n","u","m","b","e","r">>}

RealValues(field) ==
    CASE field = "email" -> {W_johnAtX, W_annAtX}
      [] field = "phone" -> {W_phone1, W_phone2}
      [] field = "linkedin" -> {W_jdoe, W_asmith}
      [] field = "jobTitle" -> {W_Engineer, W_SeniorEngineer, W_Sales, W_Manager}

\* the forms of a LinkedIn profile reference with the given slug
ProfilePrefixes ==
    {<<>>, S_linkedinIn, S_www \o S_linkedinIn,
     S_http \o S_linkedinIn, S_http \o S_www \o S_linkedinIn,
     S_https \o S_linkedinIn, S_https \o S_www \o S_linkedinIn}

ProfileForms(slug) ==
    {pre \o slug \o suf : pre \in ProfilePrefixes, suf \in {<<>>, <<"/">>}}

\* records that differ from base in one field
OneField(base, field, values) == {[base EXCEPT ![field] = v] : v \in values}

PairPool(base) ==
    UNION {OneField(base, f, PlaceholderValues \cup RealValues(f)) :
              f \in {"email", "phone", "linkedin"}}
      \cup OneField(Named(W_John, W_Doe), "jobTitle",
                    PlaceholderValues \cup RealValues("jobTitle"))
      \cup OneField(base, "linkedin",
                    ProfileForms(W_jdoe) \cup {W_JDoeMixed, W_bobrayUrl})

\* SpecPair: findMatchingEmployee on a list of one record
InitPair ==
    /\ inp \in [fn : {"find"},
                list : {Arr(<<e>>) : e \in PairPool(Named(W_Bob, W_Ray))},
                emp : PairPool(Named(W_Ann, W_Lee))]
    /\ out = NoCall
    /\ DriverIdle

NextPair == CallFind

SpecPair == InitPair /\ [][NextPair]_vars


\* values of one field given to mergeEmployeeData in SpecMerge
MergeValues(field) ==
    CASE field = "firstName" -> {Null, <<>>, W_Bob, W_Robert}
      [] field = "lastName" -> {Null, S_na, W_Ray, W_Lee}
      [] field = "email" -> {Null, S_noEmail, W_jdAtY, W_annAtX, W_johnAtX,
                             W_JohnAtXPadded}
      [] field = "phone" -> {Null, <<>>, S_na, W_phone1, W_phone1Alt, W_phone2,
                             W_phoneWords, W_noPhoneListed}
      [] field = "jobTitle" -> {Null, S_dash, W_Eng, W_Dev, W_Engineer,
                                W_SeniorEngineer}
      [] field = "linkedin" -> {Null, S_unknown, W_jdoe, W_bobray, W_bobrayUrl}
      [] field = "location" -> {Null, <<>>, W_Pune, W_PuneIndia}

MergePool(base) ==
    UNION {OneField(base, MergeFields[k], MergeValues(MergeFields[k])) :
              k \in 1..Len(MergeFields)}

TargetBase == [Named(W_John, W_Doe) EXCEPT !.id = 5, !.phoneLocked = TRUE]
SourceBase == [Named(W_Jon, W_Smith) EXCEPT !.id = 9]

\* SpecMerge: mergeEmployeeData on one pair of records
InitMerge ==
    /\ inp \in [fn : {"merge"}, target : MergePool(TargetBase),
                source : MergePool(SourceBase)]
    /\ out = NoCall
    /\ DriverIdle

\* mergeEmployeeData(target, source)
CallMerge ==
    /\ inp.fn = "merge"
    /\ out.op = "none"
    /\ out' = [op |-> "merge", merged |-> mergeEmployeeData(inp.target, inp.source)]
    /\ UNCHANGED <<inp, driverVars>>

NextMerge == CallMerge

SpecMerge == InitMerge /\ [][NextMerge]_vars

----------------------------------------------------------------------------
(* services/ai/parsers.js: normalizeData *)

\* x || ''
orEmpty(v) == IF v = Null \/ v = <<>> THEN <<>> ELSE v

\* x || d
orDefault(v, d) == IF v = Null \/ v = <<>> THEN d ELSE v

W_NA == <<"N","/","A">>

\* number of generateId calls normalizeData makes for the companies before
\* position c
RECURSIVE idsBefore(_, _)
idsBefore(data, c) ==
    IF c <= 1 THEN 0
    ELSE idsBefore(data, c - 1) + 1 + Len(data[c - 1].employees)

\* normalizeData(data), generateId returning base + 1, base + 2, ...
normalizeData(data, base) ==
    [c \in 1..Len(data) |->
        LET first == base + idsBefore(data, c) + 1
        IN  [id |-> first,
             name |-> orDefault(data[c].name, W_NA),
             domain |-> orEmpty(data[c].domain),
             employees |->
                 [k \in 1..Len(data[c].employees) |->
                     LET emp == data[c].employees[k]
                     IN  [id |-> first + k,
                          firstName |-> orEmpty(emp.firstName),
                          lastName |-> orEmpty(emp.lastName),
                          email |-> orEmpty(emp.email),
                          phone |-> orEmpty(emp.phone),
                          jobTitle |-> orDefault(emp.jobTitle, W_TeamMember),
                          linkedin |-> orEmpty(emp.linkedin),
                          location |-> orEmpty(emp.location),
                          phoneLocked |-> FALSE]]]]

----------------------------------------------------------------------------
(* config/index.js: FIELD_MAPPINGS; parsers/csv.js and parsers/json.js *)

\* Decoded JSON objects are functions from keys to values, keys being
\* strings in the representation of this module; a key outside the domain
\* reads as undefined (Null).  The id of an object is a natural, 0 or
\* absent being falsy.

K_name == <<"n","a","m","e">>
K_domain == <<"d","o","m","a","i","n">>
K_industry == <<"i","n","d","u","s","t","r","y">>
K_size == <<"s","i","z","e">>
K_type == <<"t","y","p","e">>
K_headquarters == <<"h","e","a","d","q","u","a","r","t","e","r","s">>
K_linkedin == <<"l","i","n","k","e","d","i","n">>
K_firstName == <<"f","i","r","s","t","N","a","m","e">>
K_lastName == <<"l","a","s","t","N","a","m","e">>
K_email == <<"e","m","a","i","l">>
K_phone == <<"p","h","o","n","e">>
K_jobTitle == <<"j","o","b","T","i","t","l","e">>
K_location == <<"l","o","c","a","t","i","o","n">>
K_title == <<"t","i","t","l","e">>
K_id == <<"i","d">>
K_employees == <<"e","m","p","l","o","y","e","e","s">>

H_CompanyName == <<"C","o","m","p","a","n","y"," ","n","a","m","e">>
H_CompanyDomain == <<"C","o","m","p","a","n","y"," ","d","o","m","a","i","n">>
H_CompanyIndustry == <<"C","o","m","p","a","n","y"," ","i","n","d","u","s","t","r","y">>
H_CompanySize == <<"C","o","m","p","a","n","y"," ","s","i","z","e">>
H_CompanyType == <<"C","o","m","p","a","n","y"," ","t","y","p","e">>
H_CompanyHeadquarters == <<"C","o","m","p","a","n","y"," ","h","e","a","d","q","u","a","r","t","e","r","s">>
H_CompanyLinkedIn == <<"C","o","m","p","a","n","y"," ","L","i","n","k","e","d","I","n">>
H_FirstName == <<"F","i","r","s","t"," ","n","a","m","e">>
H_LastName == <<"L","a","s","t"," ","n","a","m","e">>
H_Email == <<"E","m","a","i","l">>
H_Phone == <<"P","h","o","n","e">>
H_JobTitle == <<"J","o","b"," ","t","i","t","l","e">>
H_LinkedIn == <<"L","i","n","k","e","d","I","n">>
H_Location == <<"L","o","c","a","t","i","o","n">>

\* Object.entries(FIELD_MAPPINGS.company)
CompanyMappings ==
    <<[original |-> H_CompanyName, mapped |-> K_name],
      [original |-> H_CompanyDomain, mapped |-> K_domain],
      [original |-> H_CompanyIndustry, mapped |-> K_industry],
      [original |-> H_CompanySize, mapped |-> K_size],
      [original |-> H_CompanyType, mapped |-> K_type],
      [original |-> H_CompanyHeadquarters, mapped |-> K_headquarters],
      [original |-> H_CompanyLinkedIn, mapped |-> K_linkedin]>>

\* Object.entries(FIELD_MAPPINGS.employee)
EmployeeMappings ==
    <<[original |-> H_FirstName, mapped |-> K_firstName],
      [original |-> H_LastName, mapped |-> K_lastName],
      [original |-> H_Email, mapped |-> K_email],
      [original |-> H_Phone, mapped |-> K_phone],
      [original |-> H_JobTitle, mapped |-> K_jobTitle],
      [original |-> H_LinkedIn, mapped |-> K_linkedin],
      [original |-> H_Location, mapped |-> K_location]>>

\* obj[key], undefined when the object has no such key
get(obj, key) == IF key \in DOMAIN obj THEN obj[key] ELSE Null

\* obj.id || generateId()
idOr(obj, fresh) ==
    IF K_id \in DOMAIN obj /\ obj[K_id] # 0 THEN obj[K_id] ELSE fresh

\* whether obj.id || generateId() calls generateId
drawsId(obj) == ~(K_id \in DOMAIN obj /\ obj[K_id] # 0)

\* a Company as the parsers build it
ParsedCompany(id, name, domain, industry, size, type, headquarters, linkedin, employees) ==
    [id |-> id, name |-> name, domain |-> domain, industry |-> industry,
     size |-> size, type |-> type, headquarters |-> headquarters,
     linkedin |-> linkedin, employees |-> employees]

\* an Employee as the parsers build it
ParsedEmployee(id, firstName, lastName, email, phone, jobTitle, linkedin, location) ==
    [id |-> id, firstName |-> firstName, lastName |-> lastName,
     email |-> email, phone |-> phone, jobTitle |-> jobTitle,
     linkedin |-> linkedin, location |-> location]

\* s.replace(re, '') for a regular expression anchored at the start whose
\* language is the finite set alts
stripLeading(s, alts) ==
    IF \E p \in alts : startsWithAt(s, 1, p)
    THEN LET p == CHOOSE q \in alts : startsWithAt(s, 1, q)
         IN  SubSeq(s, Len(p) + 1, Len(s))
    ELSE s

\* the grouping key of a row: the normalized domain, or the name without one
companyKey(domain, companyName) ==
    trim(stripTrailingSlash(
             stripLeading(stripLeading(toLowerCase(orDefault(domain, companyName)),
                                       {S_http, S_https}),
                          {S_www})))

\* json.js normalizeRecord(record, mappings)
normalizeRecord(record, mappings) ==
    [k \in {mappings[n].mapped : n \in {m \in 1..Len(mappings) :
                \/ get(record, mappings[m].original) # Null
                \/ get(record, mappings[m].mapped) # Null}} |->
        LET n == CHOOSE m \in 1..Len(mappings) : mappings[m].mapped = k
        IN  IF get(record, mappings[n].original) # Null
            THEN record[mappings[n].original]
            ELSE record[k]]

\* companyMap, in insertion order, and the ids drawn so far
emptyCompanyMap(ids) == [keys |-> <<>>, companies |-> <<>>, ids |-> ids]

companyMapHas(acc, key) == \E n \in 1..Len(acc.keys) : acc.keys[n] = key

companyMapIndex(acc, key) == CHOOSE n \in 1..Len(acc.keys) : acc.keys[n] = key

\* companyMap.set on every row: a later row of the key replaces the company
withCompany_recreate(acc, key, company) ==
    IF companyMapHas(acc, key)
    THEN [acc EXCEPT !.companies[companyMapIndex(acc, key)] =
                         [company EXCEPT !.id = acc.ids + 1],
                     !.ids = @ + 1]
    ELSE [keys |-> Append(acc.keys, key),
          companies |-> Append(acc.companies,
                               [company EXCEPT !.id = acc.ids + 1]),
          ids |-> acc.ids + 1]

\* if (!companyMap.has(companyKey)) companyMap.set(companyKey, {...})
withCompany(acc, key, company) ==
    IF companyMapHas(acc, key) THEN acc
    ELSE [keys |-> Append(acc.keys, key),
          companies |-> Append(acc.companies,
                               [company EXCEPT !.id = acc.ids + 1]),
          ids |-> acc.ids + 1]

\* if (firstName || lastName) companyMap.get(companyKey).employees.push({...})
withEmployee(acc, key, hasName, employee) ==
    IF hasName
    THEN [acc EXCEPT
             !.companies[companyMapIndex(acc, key)].employees =
                 Append(@, [employee EXCEPT !.id = acc.ids + 1]),
             !.ids = @ + 1]
    ELSE acc

\* one row grouped into companyMap
groupRow(acc, key, company, hasName, employee) ==
    withEmployee(withCompany(acc, key, company), key, hasName, employee)

\* a || b on strings
truthy(v) == v # Null /\ v # <<>>

\* json.js, flat branch: the company a row describes
flatCompany(item, companyData) ==
    ParsedCompany(0,
        orDefault(get(companyData, K_name),
                  orDefault(get(item, K_name),
                            orDefault(get(item, H_CompanyName), W_NA))),
        orDefault(get(companyData, K_domain),
                  orDefault(get(item, K_domain),
                            orDefault(get(item, H_CompanyDomain), <<>>))),
        orDefault(get(companyData, K_industry), orDefault(get(item, K_industry), <<>>)),
        orDefault(get(companyData, K_size), orDefault(get(item, K_size), <<>>)),
        orDefault(get(companyData, K_type), orDefault(get(item, K_type), <<>>)),
        orDefault(get(companyData, K_headquarters),
                  orDefault(get(item, K_headquarters), <<>>)),
        orDefault(get(companyData, K_linkedin), orDefault(get(item, K_linkedin), <<>>)),
        <<>>)

\* json.js, flat branch: the employee a row describes
flatEmployee(item, employeeData) ==
    ParsedEmployee(0,
        orDefault(get(employeeData, K_firstName),
                  orDefault(get(item, K_firstName),
                            orDefault(get(item, H_FirstName), <<>>))),
        orDefault(get(employeeData, K_lastName),
                  orDefault(get(item, K_lastName),
                            orDefault(get(item, H_LastName), <<>>))),
        orDefault(get(employeeData, K_email), orDefault(get(item, K_email), <<>>)),
        orDefault(get(employeeData, K_phone), orDefault(get(item, K_phone), <<>>)),
        orDefault(get(employeeData, K_jobTitle),
                  orDefault(get(item, K_jobTitle),
                            orDefault(get(item, K_title), <<>>))),
        orDefault(get(employeeData, K_linkedin), orDefault(get(item, K_linkedin), <<>>)),
        orDefault(get(employeeData, K_location), orDefault(get(item, K_location), <<>>)))

\* the body of the loop over a flat array
groupFlat(acc, company, employee) ==
    groupRow(acc, companyKey(company.domain, company.name), company,
             truthy(employee.firstName) \/ truthy(employee.lastName), employee)

\* the loop over a flat array from position k on
RECURSIVE parseFlat(_, _, _)
parseFlat(acc, data, k) ==
    IF k > Len(data) THEN acc
    ELSE parseFlat(
             groupFlat(acc,
                       flatCompany(data[k], normalizeRecord(data[k], CompanyMappings)),
                       flatEmployee(data[k], normalizeRecord(data[k], EmployeeMappings))),
             data, k + 1)

\* json.js, pre-grouped branch: one nested employee
groupedEmployee(emp, fresh) ==
    ParsedEmployee(idOr(emp, fresh),
        orDefault(get(emp, K_firstName), orDefault(get(emp, H_FirstName), <<>>)),
        orDefault(get(emp, K_lastName), orDefault(get(emp, H_LastName), <<>>)),
        orDefault(get(emp, K_email), orDefault(get(emp, H_Email), <<>>)),
        orDefault(get(emp, K_phone), orDefault(get(emp, H_Phone), <<>>)),
        orDefault(get(emp, K_jobTitle), orDefault(get(emp, H_JobTitle), <<>>)),
        orDefault(get(emp, K_linkedin), orDefault(get(emp, H_LinkedIn), <<>>)),
        orDefault(get(emp, K_location), orDefault(get(emp, H_Location), <<>>)))

\* number of generateId calls for the first n elements of a list of objects
RECURSIVE drawnBefore(_, _)
drawnBefore(objs, n) ==
    IF n = 0 THEN 0
    ELSE drawnBefore(objs, n - 1) + (IF drawsId(objs[n]) THEN 1 ELSE 0)

\* (company.employees || []).map(emp => ...), generateId giving base + 1, ...
groupedEmployees(emps, base) ==
    [n \in 1..Len(emps) |->
        groupedEmployee(emps[n], base + drawnBefore(emps, n - 1) + 1)]

\* company.employees || []
employeesOf(company) ==
    IF K_employees \in DOMAIN company THEN company[K_employees] ELSE <<>>

\* json.js, pre-grouped branch: one element, base ids drawn before it
groupedCompany(company, base) ==
    ParsedCompany(idOr(company, base + 1),
        orDefault(get(company, K_name), orDefault(get(company, H_CompanyName), W_NA)),
        orDefault(get(company, K_domain), orDefault(get(company, H_CompanyDomain), <<>>)),
        orDefault(get(company, K_industry),
                  orDefault(get(company, H_CompanyIndustry), <<>>)),
        orDefault(get(company, K_size), orDefault(get(company, H_CompanySize), <<>>)),
        orDefault(get(company, K_type), orDefault(get(company, H_CompanyType), <<>>)),
        orDefault(get(company, K_headquarters),
                  orDefault(get(company, H_CompanyHeadquarters), <<>>)),
        orDefault(get(company, K_linkedin),
                  orDefault(get(company, H_CompanyLinkedIn), <<>>)),
        groupedEmployees(employeesOf(company),
                         base + (IF drawsId(company) THEN 1 ELSE 0)))

\* generateId calls of the pre-grouped branch for one element
drawnBy(company) ==
    (IF drawsId(company) THEN 1 ELSE 0)
        + drawnBefore(employeesOf(company), Len(employeesOf(company)))

\* data.map(company => ...) from position k on
RECURSIVE parseGrouped(_, _, _)
parseGrouped(acc, data, k) ==
    IF k > Len(data) THEN acc
    ELSE parseGrouped(
             [keys |-> acc.keys,
              companies |-> Append(acc.companies, groupedCompany(data[k], acc.ids)),
              ids |-> acc.ids + drawnBy(data[k])],
             data, k + 1)

\* json.js parse(input) for a decoded array, ids being the ids drawn so far:
\* the companies returned and the ids drawn
parseJSON(data, ids) ==
    IF data # <<>> /\ K_employees \in DOMAIN data[1]
    THEN parseGrouped(emptyCompanyMap(ids), data, 1)
    ELSE parseFlat(emptyCompanyMap(ids), data, 1)

\* s.split(sep) for a one-character separator
RECURSIVE split(_, _)
split(s, sep) ==
    IF \A i \in 1..Len(s) : s[i] # sep THEN <<s>>
    ELSE <<SubSeq(s, 1, (CHOOSE i \in 1..Len(s) :
                            s[i] = sep /\ \A j \in 1..(i - 1) : s[j] # sep) - 1)>>
         \o split(SubSeq(s, (CHOOSE i \in 1..Len(s) :
                                s[i] = sep /\ \A j \in 1..(i - 1) : s[j] # sep) + 1,
                         Len(s)),
                  sep)

\* s.replace(/\s+/g, c)
RECURSIVE replaceWhitespaceRuns(_, _)
replaceWhitespaceRuns(s, c) ==
    IF s = <<>> THEN <<>>
    ELSE IF Head(s) \in WhiteChars
         THEN <<c>> \o replaceWhitespaceRuns(trimStart(s), c)
         ELSE <<Head(s)>> \o replaceWhitespaceRuns(Tail(s), c)

\* the for loop of parseLine from character i on, up to the comma that ends
\* the field or the end of the line: the field pushed, and the position
\* after the comma (0 at the end of the line)
RECURSIVE scanField(_, _, _, _)
scanField(line, i, current, inQuotes) ==
    IF i > Len(line) THEN [field |-> trim(current), next |-> 0]
    ELSE IF line[i] = "\"" /\ inQuotes /\ i < Len(line) /\ line[i + 1] = "\""
         THEN scanField(line, i + 2, Append(current, "\""), inQuotes)
    ELSE IF line[i] = "\""
         THEN scanField(line, i + 1, current, ~inQuotes)
    ELSE IF line[i] = "," /\ ~inQuotes
         THEN [field |-> trim(current), next |-> i + 1]
    ELSE scanField(line, i + 1, Append(current, line[i]), inQuotes)

\* the for loop of parseLine field by field; inQuotes is false after the
\* comma that ends a field
RECURSIVE parseLineFrom(_, _, _)
parseLineFrom(line, fields, scanned) ==
    IF scanned.next = 0 THEN Append(fields, scanned.field)
    ELSE parseLineFrom(line, Append(fields, scanned.field),
                       scanField(line, scanned.next, <<>>, FALSE))

parseLine(line) == parseLineFrom(line, <<>>, scanField(line, 1, <<>>, FALSE))

\* the property names every object literal inherits from Object.prototype,
\* all of them with a truthy value
ObjectPrototypeKeys ==
    {<<"c","o","n","s","t","r","u","c","t","o","r">>,
     <<"t","o","S","t","r","i","n","g">>,
     <<"t","o","L","o","c","a","l","e","S","t","r","i","n","g">>,
     <<"v","a","l","u","e","O","f">>,
     <<"h","a","s","O","w","n","P","r","o","p","e","r","t","y">>,
     <<"i","s","P","r","o","t","o","t","y","p","e","O","f">>,
     <<"p","r","o","p","e","r","t","y","I","s","E","n","u","m","e","r","a","b","l","e">>,
     <<"_","_","p","r","o","t","o","_","_">>,
     <<"_","_","d","e","f","i","n","e","G","e","t","t","e","r","_","_">>,
     <<"_","_","d","e","f","i","n","e","S","e","t","t","e","r","_","_">>,
     <<"_","_","l","o","o","k","u","p","G","e","t","t","e","r","_","_">>,
     <<"_","_","l","o","o","k","u","p","S","e","t","t","e","r","_","_">>}

\* the value of an inherited property: a function or an object, not a string
InheritedValue == <<"inherited">>

\* the mapping table has the header as a key of its own
ownMapping(mappings, trimmed) ==
    \E n \in 1..Len(mappings) : mappings[n].original = trimmed

\* FIELD_MAPPINGS.company[trimmed] / FIELD_MAPPINGS.employee[trimmed] is
\* truthy: the tables are object literals, so the lookup also finds what they
\* inherit
hasMapping(mappings, trimmed) ==
    ownMapping(mappings, trimmed) \/ trimmed \in ObjectPrototypeKeys

mappingOf(mappings, trimmed) ==
    IF ownMapping(mappings, trimmed)
    THEN mappings[CHOOSE n \in 1..Len(mappings) :
                      mappings[n].original = trimmed].mapped
    ELSE InheritedValue

\* csv.js normalizeHeader of a trimmed header
headerOf(trimmed) ==
    IF hasMapping(CompanyMappings, trimmed)
    THEN [key |-> mappingOf(CompanyMappings, trimmed), type |-> "company"]
    ELSE IF hasMapping(EmployeeMappings, trimmed)
         THEN [key |-> mappingOf(EmployeeMappings, trimmed), type |-> "employee"]
         ELSE [key |-> replaceWhitespaceRuns(toLowerCase(trimmed), "_"),
               type |-> "unknown"]

normalizeHeader(header) == headerOf(trim(header))

\* values[idx] || ''
valueAt(values, idx) == IF idx <= Len(values) THEN values[idx] ELSE <<>>

\* the object headers.forEach fills from the headers of the given types, a
\* later header of the same key overwriting an earlier one
rowData(headers, values, types) ==
    [k \in {headers[i].key : i \in {j \in 1..Len(headers) :
                                      headers[j].type \in types}} |->
        valueAt(values,
                CHOOSE i \in 1..Len(headers) :
                    /\ headers[i].key = k
                    /\ headers[i].type \in types
                    /\ \A j \in (i + 1)..Len(headers) :
                           ~(headers[j].key = k /\ headers[j].type \in types))]

\* csv.js: the company a row describes
csvCompany(record, companyData) ==
    ParsedCompany(0,
        orDefault(get(companyData, K_name), orDefault(get(record, K_name), W_NA)),
        orDefault(get(companyData, K_domain), <<>>),
        orDefault(get(companyData, K_industry), <<>>),
        orDefault(get(companyData, K_size), <<>>),
        orDefault(get(companyData, K_type), <<>>),
        orDefault(get(companyData, K_headquarters), <<>>),
        orDefault(get(companyData, K_linkedin), <<>>),
        <<>>)

\* csv.js: the employee a row describes
csvEmployee(employeeData) ==
    ParsedEmployee(0,
        orDefault(get(employeeData, K_firstName), <<>>),
        orDefault(get(employeeData, K_lastName), <<>>),
        orDefault(get(employeeData, K_email), <<>>),
        orDefault(get(employeeData, K_phone), <<>>),
        orDefault(get(employeeData, K_jobTitle), <<>>),
        orDefault(get(employeeData, K_linkedin), <<>>),
        orDefault(get(employeeData, K_location), <<>>))

\* the body of the loop over the data lines, after the row's objects are built
groupCsv(acc, company, employeeData) ==
    groupRow(acc, companyKey(company.domain, company.name), company,
             \/ truthy(get(employeeData, K_firstName))
             \/ truthy(get(employeeData, K_lastName)),
             csvEmployee(employeeData))

\* one data line
csvRow(acc, headers, values) ==
    groupCsv(acc,
             csvCompany(rowData(headers, values, {"company", "employee", "unknown"}),
                        rowData(headers, values, {"company"})),
             rowData(headers, values, {"employee"}))

\* the loop over lines[i], i >= 1 (here from position k on, lines[k] being
\* the k-th line counted from one)
RECURSIVE parseRows(_, _, _, _)
parseRows(acc, headers, lines, k) ==
    IF k > Len(lines) THEN acc
    ELSE parseRows(csvRow(acc, headers, parseLine(lines[k])), headers, lines, k + 1)

\* text.trim().split('\n').filter(l => l.trim())
csvLines(text) == SelectSeq(split(trim(text), "\n"), LAMBDA l : trim(l) # <<>>)

\* rawHeaders.map(normalizeHeader)
csvHeaders(rawHeaders) ==
    [i \in 1..Len(rawHeaders) |-> normalizeHeader(rawHeaders[i])]

parseLinesOf(lines, ids) ==
    IF Len(lines) < 2 THEN emptyCompanyMap(ids)
    ELSE parseRows(emptyCompanyMap(ids), csvHeaders(parseLine(lines[1])), lines, 2)

\* csv.js parse(text), ids being the ids drawn so far: the companies
\* returned and the ids drawn
parseCSV(text, ids) == parseLinesOf(csvLines(text), ids)

W_Software == <<"S","o","f","t","w","a","r","e">>
W_Hardware == <<"H","a","r","d","w","a","r","e">>
W_Retail == <<"R","e","t","a","i","l">>
W_AcmeInc == <<"A","c","m","e",","," ","I","n","c">>
W_acmeUrl == <<"h","t","t","p","s",":","/","/","w","w","w",".","a","c","m","e",".","c","o","m","/">>
W_BETA == <<"B","E","T","A">>
W_WWWAcme == <<"W","W","W",".","A","c","m","e",".","c","o","m">>
W_AcmeQuoted == <<"A","c","m","e"," ","\"","T","h","e","\""," ","C","o">>

\* the header row of the CSV inputs
CsvHeaders ==
    <<H_CompanyName, H_CompanyDomain, H_CompanyIndustry, H_FirstName,
      H_LastName, H_Email, H_JobTitle>>

\* an input row under the CSV headers
Row(name, domain, industry, firstName, lastName, email, jobTitle) ==
    (H_CompanyName :> name) @@ (H_CompanyDomain :> domain)
        @@ (H_CompanyIndustry :> industry) @@ (H_FirstName :> firstName)
        @@ (H_LastName :> lastName) @@ (H_Email :> email)
        @@ (H_JobTitle :> jobTitle)

\* most rows or elements of one input
MaxRows == 3

\* rows given to both parsers
RowPool ==
    {Row(W_Acme, W_acmeCom, W_Software, W_John, W_Doe, W_johnAtX, W_Engineer),
     Row(W_AcmeInc, W_acmeUrl, W_Hardware, W_Ann, W_Lee, W_annAtX, W_Manager),
     Row(W_Beta, <<>>, <<>>, W_Bob, W_Ray, <<>>, W_Sales),
     Row(W_BETA, <<>>, W_Retail, <<>>, <<>>, W_patAtX, <<>>),
     Row(<<>>, <<>>, <<>>, W_Pat, <<>>, <<>>, <<>>),
     Row(W_AcmeQuoted, <<>>, <<>>, <<>>, W_Kim, <<>>, W_Dev)}

\* elements given to the JSON parser only: a row under canonical keys and
\* pre-grouped companies
JsonPool ==
    {(K_name :> W_Beta) @@ (K_domain :> W_WWWAcme) @@ (K_firstName :> W_Ann)
         @@ (K_title :> W_Dev),
     (K_name :> W_Acme) @@ (K_domain :> W_acmeCom)
         @@ (K_employees :>
                <<(K_firstName :> W_John) @@ (K_lastName :> W_Doe)
                      @@ (K_email :> W_johnAtX),
                  (K_email :> W_patAtX)>>),
     (H_CompanyName :> W_Acme) @@ (H_CompanyDomain :> W_acmeCom) @@ (K_id :> 7)
         @@ (K_employees :> <<(H_FirstName :> W_Ann) @@ (K_id :> 9)>>),
     (K_name :> W_Beta) @@ (K_employees :> <<>>)}

\* a CSV field as a spreadsheet export writes it
RECURSIVE doubleQuotes(_)
doubleQuotes(v) ==
    IF v = <<>> THEN <<>>
    ELSE (IF Head(v) = "\"" THEN <<"\"", "\"">> ELSE <<Head(v)>>)
             \o doubleQuotes(Tail(v))

csvField(v) ==
    IF \E i \in 1..Len(v) : v[i] \in {",", "\"", "\n"}
    THEN <<"\"">> \o doubleQuotes(v) \o <<"\"">>
    ELSE v

RECURSIVE join(_, _)
join(parts, sep) ==
    IF parts = <<>> THEN <<>>
    ELSE IF Len(parts) = 1 THEN parts[1]
         ELSE parts[1] \o <<sep>> \o join(Tail(parts), sep)

\* the CSV text of a list of rows
csvText(rows) ==
    join(<<join([i \in 1..Len(CsvHeaders) |-> csvField(CsvHeaders[i])], ",")>>
             \o [n \in 1..Len(rows) |->
                    join([i \in 1..Len(CsvHeaders) |-> csvField(rows[n][CsvHeaders[i]])],
                         ",")],
         "\n")

\* texts given to json.js parse as a string
T_emptyArray == <<"[","]">>
T_oneRow == <<"[","{","\"","n","a","m","e","\"",":","\"","A","c","m","e","\"",",","\"","f","i","r","s","t","N","a","m","e","\"",":","\"","J","o","h","n","\"","}","]">>
T_object == <<"{","}">>
T_null == <<"n","u","l","l">>
T_number == <<"7">>
T_truncated == <<"[","{","\"","n","a","m","e","\"",":">>
T_nullArray == <<"[","n","u","l","l","]">>
T_csvRow == <<"A","c","m","e",",","J","o","h","n">>

\* the element null of a decoded array, told from an object by its only key,
\* which no object has
NullElement == (Null :> Null)

isNullElement(e) == Null \in DOMAIN e

\* a field value that is neither a string nor undefined: a number other than 0
NumberValue == <<"number">>

\* JSON.parse(text) on these texts: whether it returns, and the value it
\* returns; it throws a SyntaxError on every text that is not JSON
JSONparse(text) ==
    CASE text = T_emptyArray -> [ok |-> TRUE, value |-> Arr(<<>>)]
      [] text = T_oneRow ->
             [ok |-> TRUE,
              value |-> Arr(<<(K_name :> W_Acme) @@ (K_firstName :> W_John)>>)]
      [] text = T_nullArray -> [ok |-> TRUE, value |-> Arr(<<NullElement>>)]
      [] text \in {T_object, T_null, T_number} ->
             [ok |-> TRUE, value |-> NotArray]
      [] OTHER -> [ok |-> FALSE, value |-> NotArray]

\* what a call of parse leaves: whether it threw, the companies returned and
\* the ids drawn
parseResult(threw, acc) ==
    [threw |-> threw, companies |-> acc.companies, ids |-> acc.ids]

\* the flat branch raises a TypeError for an item: normalizeRecord reads a
\* property of null, or (domain || companyName) has no toLowerCase
flatRaises(item) ==
    \/ isNullElement(item)
    \/ orDefault(flatCompany(item, normalizeRecord(item, CompanyMappings)).domain,
                 flatCompany(item, normalizeRecord(item, CompanyMappings)).name)
           = NumberValue

\* the pre-grouped branch raises a TypeError for an element: company.id or
\* emp.id is read of null
groupedRaises(company) ==
    \/ isNullElement(company)
    \/ \E n \in 1..Len(employeesOf(company)) :
           isNullElement(employeesOf(company)[n])

\* json.js parse raises a TypeError for the decoded array: data[0].employees
\* is read of null, or one of the branches raises for an element
parseRaises(data) ==
    /\ data # <<>>
    /\ \/ isNullElement(data[1])
       \/ IF K_employees \in DOMAIN data[1]
          THEN \E k \in 1..Len(data) : groupedRaises(data[k])
          ELSE \E k \in 1..Len(data) : flatRaises(data[k])

\* json.js parse from the Array.isArray test on
parseData(data, ids) ==
    IF ~data.isArray THEN parseResult(FALSE, emptyCompanyMap(ids))
    ELSE IF parseRaises(data.items) THEN parseResult(TRUE, emptyCompanyMap(ids))
    ELSE parseResult(FALSE, parseJSON(data.items, ids))

\* JSON.parse called outside the try block
parseString_uncaught(text, ids) ==
    IF ~JSONparse(text).ok THEN parseResult(TRUE, emptyCompanyMap(ids))
    ELSE parseData(JSONparse(text).value, ids)

\* json.js parse of a string: try { data = JSON.parse(input) } catch { return [] }
parseString(text, ids) ==
    IF ~JSONparse(text).ok THEN parseResult(FALSE, emptyCompanyMap(ids))
    ELSE parseData(JSONparse(text).value, ids)

\* json.js parse(input): input is a string or a decoded value
parseInput(input, ids) ==
    IF input.isString THEN parseString(input.text, ids)
    ELSE parseData(input.value, ids)

\* the arguments given to json.js parse as they come from a file or a caller
JsonInputs ==
    [isString : {TRUE},
     text : {<<>>, T_emptyArray, T_oneRow, T_object, T_null, T_number,
             T_truncated, T_csvRow, T_nullArray}]
        \cup [isString : {FALSE},
              value : {NotArray, Arr(<<>>), Arr(<<NullElement>>),
                       Arr(<<(K_name :> W_Acme) @@ (K_firstName :> W_John),
                             NullElement>>),
                       Arr(<<(K_name :> NumberValue) @@ (K_firstName :> W_John)>>),
                       Arr(<<(K_name :> W_Acme) @@ (K_industry :> NumberValue)
                                 @@ (K_lastName :> W_Doe)>>),
                       Arr(<<(K_name :> W_Beta)
                                 @@ (K_employees :>
                                        <<(K_firstName :> W_Ann), NullElement>>)>>)}]

\* texts given to csv.js parse that have fewer than two lines with something
\* on them
ShortTexts ==
    {<<>>, <<" ">>, <<"\n","\n">>, T_csvRow,
     <<" ","\n">> \o T_csvRow \o <<"\n"," ","\t","\n">>,
     H_CompanyName \o <<"\r","\n">>,
     <<"\n">> \o H_CompanyName \o <<"\n"," ","\n">>}

\* SpecParse: one call of a parser
InitParse ==
    /\ \/ inp \in [fn : {"parseJSON"},
                   data : ListsUpTo(RowPool \cup JsonPool, MaxRows)]
       \/ \E rows \in ListsUpTo(RowPool, MaxRows) :
              inp = [fn |-> "parseCSV", data |-> rows, text |-> csvText(rows)]
       \/ inp \in [fn : {"parseCSV"}, data : {<<>>}, text : ShortTexts]
       \/ inp \in [fn : {"parse"}, input : JsonInputs]
    /\ out = NoCall
    /\ DriverIdle

\* parseJSON(data)
CallParseJSON ==
    /\ inp.fn = "parseJSON"
    /\ out.op = "none"
    /\ out' = [op |-> "parse", result |-> parseJSON(inp.data, nextId).companies]
    /\ nextId' = parseJSON(inp.data, nextId).ids
    /\ UNCHANGED <<inp, store, parsedData, imp, hist, parses, dedup, dhist>>

\* parseCSV(text)
CallParseCSV ==
    /\ inp.fn = "parseCSV"
    /\ out.op = "none"
    /\ out' = [op |-> "parse", result |-> parseCSV(inp.text, nextId).companies]
    /\ nextId' = parseCSV(inp.text, nextId).ids
    /\ UNCHANGED <<inp, store, parsedData, imp, hist, parses, dedup, dhist>>

\* json.js parse(input)
CallParseInput ==
    /\ inp.fn = "parse"
    /\ out.op = "none"
    /\ out' = [op |-> "entry", threw |-> parseInput(inp.input, nextId).threw,
               result |-> parseInput(inp.input, nextId).companies]
    /\ nextId' = parseInput(inp.input, nextId).ids
    /\ UNCHANGED <<inp, store, parsedData, imp, hist, parses, dedup, dhist>>

NextParse ==
    \/ CallParseJSON
    \/ CallParseCSV
    \/ CallParseInput

SpecParse == InitParse /\ [][NextParse]_vars

\* the headers FIELD_MAPPINGS has as keys
RecognizedHeaders ==
    {CompanyMappings[n].original : n \in 1..Len(CompanyMappings)}
        \cup {EmployeeMappings[n].original : n \in 1..Len(EmployeeMappings)}

\* header cells of a CSV file: the recognized headers as they are, padded and
\* in lower case, and headers of other columns
HeaderPool ==
    UNION {{h, <<" ">> \o h, h \o <<" ", "\t">>, toLowerCase(h)} :
              h \in RecognizedHeaders}
        \cup {<<>>, <<" ">>, <<"N","o","t","e","s">>, <<"Z","i","p"," "," ","C","o","d","e">>, <<"n","a","m","e">>,
              <<"C","o","m","p","a","n","y"," "," ","n","a","m","e">>, <<"F","i","r","s","t"," ","N","a","m","e">>,
              <<"c","o","n","s","t","r","u","c","t","o","r">>, <<" ","t","o","S","t","r","i","n","g"," ">>,
              <<"_","_","p","r","o","t","o","_","_">>}

\* SpecHeader: normalizeHeader of one header cell, and the body of
\* headers.forEach for a line with the one value under it
InitHeader ==
    /\ inp \in [fn : {"normalizeHeader"}, header : HeaderPool, value : {W_Acme}]
    /\ out = NoCall
    /\ DriverIdle

CallNormalizeHeader ==
    /\ inp.fn = "normalizeHeader"
    /\ out.op = "none"
    /\ out' = [op |-> "header",
               result |-> normalizeHeader(inp.header),
               companyData |-> rowData(<<normalizeHeader(inp.header)>>,
                                       <<inp.value>>, {"company"}),
               employeeData |-> rowData(<<normalizeHeader(inp.header)>>,
                                        <<inp.value>>, {"employee"})]
    /\ UNCHANGED <<inp, store, parsedData, imp, hist, nextId, parses, dedup, dhist>>

NextHeader == CallNormalizeHeader

SpecHeader == InitHeader /\ [][NextHeader]_vars

W_SoftwareRetail == <<"S","o","f","t","w","a","r","e","\n","R","e","t","a","i","l">>

\* rows given to both parsers one after the other: the rows of RowPool and a
\* row with a line break inside a value
BothPool ==
    RowPool \cup
        {Row(W_Beta, <<>>, W_SoftwareRetail, W_Ann, W_Lee, W_annAtX, W_Manager)}

\* SpecBoth: parseJSON of a flat row list, then parseCSV of its CSV text
InitBoth ==
    /\ \E rows \in ListsUpTo(BothPool, MaxRows) :
           inp = [fn |-> "both", data |-> rows, text |-> csvText(rows)]
    /\ out = NoCall
    /\ DriverIdle

\* parseJSON(rows)
BothParseJSON ==
    /\ inp.fn = "both"
    /\ out.op = "none"
    /\ out' = [op |-> "json", json |-> parseJSON(inp.data, nextId).companies]
    /\ nextId' = parseJSON(inp.data, nextId).ids
    /\ UNCHANGED <<inp, store, parsedData, imp, hist, parses, dedup, dhist>>

\* parseCSV(text)
BothParseCSV ==
    /\ inp.fn = "both"
    /\ out.op = "json"
    /\ out' = [op |-> "both", json |-> out.json,
               csv |-> parseCSV(inp.text, nextId).companies]
    /\ nextId' = parseCSV(inp.text, nextId).ids
    /\ UNCHANGED <<inp, store, parsedData, imp, hist, parses, dedup, dhist>>

NextBoth ==
    \/ BothParseJSON
    \/ BothParseCSV

SpecBoth == InitBoth /\ [][NextBoth]_vars

----------------------------------------------------------------------------
(* admin.js: importToFirebase over the Firebase service *)

\* processWithAI calls in a behaviour
MaxParses == 1
\* importToFirebase runs in a behaviour
MaxImports == 2

Company(id, name, domain, employees) ==
    [id |-> id, name |-> name, domain |-> domain, employees |-> employees]


\* the persisted employee of the non-empty initial collections
Persisted ==
    [Named(W_Pat, W_Kim) EXCEPT !.id = 2, !.email = W_patAtX,
                                !.phone = W_phone1, !.jobTitle = W_Engineer]

\* contents of the collection when the admin page is opened
InitialStores ==
    {<<>>,
     <<Company(1, W_Acme, W_acmeCom, <<Persisted>>)>>,
     <<Company(1, W_Acme, W_acmeCom,
               <<Persisted, [Named(W_John, W_Doe) EXCEPT !.id = 3,
                                                         !.jobTitle = W_Sales]>>)>>}

\* decoded AI responses given to normalizeData
RawBatches ==
    {<<Company(0, W_ACME, Null,
               <<[Named(W_Ann, W_Lee) EXCEPT !.phone = W_phone1Alt],
                 [Named(W_Bob, W_Ray) EXCEPT !.email = W_patAtX,
                                             !.phone = W_phone2]>>)>>,
     <<Company(0, W_Beta, W_acmeCom,
               <<[Named(W_John, W_Doe) EXCEPT !.email = W_johnAtX,
                                              !.jobTitle = W_Engineer]>>),
       Company(0, W_Acme, W_acmeIo,
               <<[Named(W_Pat, W_Kim) EXCEPT !.jobTitle = W_SeniorEngineer],
                 [Named(W_John, W_Doe) EXCEPT !.jobTitle = W_Manager]>>)>>,
     <<Company(0, W_Beta, Null, <<[Named(W_Ann, W_Lee) EXCEPT !.email = W_annAtX]>>),
       Company(0, W_beta, Null, <<[Named(W_Bob, W_Ray) EXCEPT !.phone = W_phone2]>>)>>,
     <<Company(0, Null, Null, <<Blank, [Named(W_Pat, Null) EXCEPT !.email = W_patAtX]>>)>>,
     <<Company(0, W_Acme, W_acmeCom, <<[Named(W_Ann, W_Lee) EXCEPT !.email = W_annAtX]>>),
       Company(0, W_ACME, W_acmeIo, <<[Named(W_Bob, W_Ray) EXCEPT !.phone = W_phone2]>>)>>}

\* the lookup with the keys of the map left in the case they were stored in
existingMapHas_caseSensitive(existing, key) ==
    \E n \in 1..Len(existing) : existing[n].name = key

\* existingMap.has(key): existing.map(c => [c.name.toLowerCase(), c])
existingMapHas(existing, key) ==
    \E n \in 1..Len(existing) : toLowerCase(existing[n].name) = key

\* existingMap.get(key): a Map built from entries keeps the last entry of a
\* key
existingMapGet(existing, key) ==
    LET hits == {n \in 1..Len(existing) : toLowerCase(existing[n].name) = key}
    IN  existing[CHOOSE n \in hits : \A m \in hits : m <= n]

\* the merged record with an id drawn anew on every merge
mergeMatched_freshId(match, newEmp, fresh) ==
    [mergeEmployeeData(match, newEmp) EXCEPT !.id = fresh]

\* the merged record taking the id of the new parse when it has one
mergeMatched_newId(match, newEmp, fresh) ==
    [mergeEmployeeData(match, newEmp) EXCEPT
        !.id = IF newEmp.id # 0 THEN newEmp.id
               ELSE IF match.id # 0 THEN match.id ELSE fresh]

\* mergedEmp.id = match.id || mergedEmp.id || generateId()
withMatchId(match, mergedEmp, fresh) ==
    [mergedEmp EXCEPT
        !.id = IF match.id # 0 THEN match.id
               ELSE IF mergedEmp.id # 0 THEN mergedEmp.id ELSE fresh]

\* the record put back in the place of match
mergeMatched(match, newEmp, fresh) ==
    withMatchId(match, mergeEmployeeData(match, newEmp), fresh)

\* { ...newEmp, id: newEmp.id || generateId() }
newEmployee(newEmp, fresh) ==
    [newEmp EXCEPT !.id = IF newEmp.id # 0 THEN newEmp.id ELSE fresh]

\* the match branch of the loop over company.employees; acc holds
\* employeeList, the counters, the Updated/Added log lines of this company
\* and the ids drawn so far
onMatch(acc, newEmp, idx, mergedEmp) ==
    [acc EXCEPT
        !.list[idx] = mergedEmp,
        !.employeesUpdated = @ + 1,
        !.nextId = IF mergedEmp.id = @ + 1 THEN @ + 1 ELSE @,
        !.steps = Append(@, [kind |-> "Updated", pos |-> idx,
                             matchId |-> acc.list[idx].id,
                             newId |-> newEmp.id,
                             id |-> mergedEmp.id])]

\* the else branch putting the new employee in front of the list
onNoMatch_unshift(acc, newEmp, added) ==
    [acc EXCEPT
        !.list = <<added>> \o @,
        !.updated = @ + 1,
        !.nextId = IF added.id = @ + 1 THEN @ + 1 ELSE @,
        !.steps = Append(@, [kind |-> "Added", pos |-> 1,
                             matchId |-> 0,
                             newId |-> newEmp.id,
                             id |-> added.id])]

\* the else branch of the loop over company.employees
onNoMatch(acc, newEmp, added) ==
    [acc EXCEPT
        !.list = Append(@, added),
        !.updated = @ + 1,
        !.nextId = IF added.id = @ + 1 THEN @ + 1 ELSE @,
        !.steps = Append(@, [kind |-> "Added", pos |-> Len(acc.list) + 1,
                             matchId |-> 0,
                             newId |-> newEmp.id,
                             id |-> added.id])]

\* one iteration of the loop, idx being findMatchingEmployee's answer
reconcileAt(acc, newEmp, idx) ==
    IF idx # 0
    THEN onMatch(acc, newEmp, idx,
                 mergeMatched(acc.list[idx], newEmp, acc.nextId + 1))
    ELSE onNoMatch(acc, newEmp, newEmployee(newEmp, acc.nextId + 1))

\* the loop leaving after its first iteration, as a write inside the loop
\* body would have it
reconcile_firstOnly(acc, newEmps, k) ==
    IF k > Len(newEmps) THEN acc
    ELSE reconcileAt(acc, newEmps[k],
                     findMatchingEmployee(Arr(acc.list), newEmps[k]))

\* the loop over company.employees from position k on
RECURSIVE reconcile(_, _, _)
reconcile(acc, newEmps, k) ==
    IF k > Len(newEmps) THEN acc
    ELSE reconcile(
             reconcileAt(acc, newEmps[k],
                         findMatchingEmployee(Arr(acc.list), newEmps[k])),
             newEmps, k + 1)

\* await FirebaseService.updateCompany(existingCompany.id, { employees })
issueUpdate(run, k, id, acc) ==
    [run |-> [run EXCEPT
                 !.pc = "write",
                 !.i = k,
                 !.pending = [NoWrite EXCEPT !.kind = "update", !.id = id,
                                             !.employees = acc.list],
                 !.steps = acc.steps,
                 !.issued = Append(@, k),
                 !.updated = acc.updated,
                 !.employeesUpdated = acc.employeesUpdated],
     nextId |-> acc.nextId]

\* await FirebaseService.addCompany(company)
issueAdd(run, k, company, ids) ==
    [run |-> [run EXCEPT
                 !.pc = "write",
                 !.i = k,
                 !.pending = [kind |-> "add", id |-> company.id,
                              name |-> company.name,
                              domain |-> company.domain,
                              employees |-> company.employees],
                 !.steps = <<>>,
                 !.issued = Append(@, k)],
     nextId |-> ids]

\* the employee list of the persisted company reconciled with the parsed one
reconcileCompany(run, existingCompany, company, ids) ==
    reconcile([list |-> existingCompany.employees,
               updated |-> run.updated,
               employeesUpdated |-> run.employeesUpdated,
               steps |-> <<>>,
               nextId |-> ids],
              company.employees, 1)

\* the body of the loop over parsedData for company k, up to its await: the
\* run with the write it has issued, and the id counter
processCompany(run, k, ids) ==
    IF existingMapHas(run.existing, toLowerCase(run.batch[k].name))
    THEN issueUpdate(run, k,
                     existingMapGet(run.existing,
                                    toLowerCase(run.batch[k].name)).id,
                     reconcileCompany(run,
                                      existingMapGet(run.existing,
                                                     toLowerCase(run.batch[k].name)),
                                      run.batch[k], ids))
    ELSE issueAdd(run, k, run.batch[k], ids)

\* the for loop resumed at company k: the next write, or the final getAll
advance(run, k, ids) ==
    IF k > Len(run.batch)
    THEN [run |-> [run EXCEPT !.pc = "sync", !.i = k, !.pending = NoWrite,
                              !.steps = <<>>],
          nextId |-> ids]
    ELSE processCompany(run, k, ids)

\* the run goes on from where advance has brought it
Resume(next) ==
    /\ imp' = next.run
    /\ nextId' = next.nextId

\* what a finished run leaves behind
outcome(run, ok, storeAfter) ==
    [batch |-> run.batch, ok |-> ok, storeBefore |-> run.startStore,
     storeAfter |-> storeAfter, created |-> run.created,
     updated |-> run.updated, employeesUpdated |-> run.employeesUpdated,
     issued |-> run.issued]

\* the catch block of importToFirebase
failRun(run) == [run EXCEPT !.pc = "failed", !.log = "Import Error",
                            !.pending = NoWrite]

insertAt(seq, p, x) == SubSeq(seq, 1, p - 1) \o <<x>> \o SubSeq(seq, p, Len(seq))

docIndex(docs, id) == CHOOSE n \in 1..Len(docs) : docs[n].id = id

Init ==
    /\ inp = [fn |-> "none"]
    /\ out = NoCall
    /\ store \in InitialStores
    /\ parsedData = <<>>
    /\ imp = NoRun
    /\ hist = <<>>
    /\ nextId = 3
    /\ parses = 0
    /\ dedup = NoDedup
    /\ dhist = <<>>

\* processWithAI resolves: parsedData = normalizeData(decoded response)
ProcessWithAI(raw) ==
    /\ parses < MaxParses
    /\ parsedData' = normalizeData(raw, nextId)
    /\ nextId' = nextId + idsBefore(raw, Len(raw) + 1)
    /\ parses' = parses + 1
    /\ UNCHANGED <<inp, out, store, imp, hist, dedup, dhist>>

\* click on btnImport with nothing parsed
ImportNoData ==
    /\ imp.pc \in {"idle", "done", "failed"}
    /\ parsedData = <<>>
    /\ imp' = [imp EXCEPT !.log = "No data to import"]
    /\ UNCHANGED <<inp, out, store, parsedData, hist, nextId, parses, dedup, dhist>>

\* click on btnImport: importToFirebase up to await FirebaseService.getAll()
StartImport ==
    /\ imp.pc \in {"idle", "done", "failed"}
    /\ Len(hist) < MaxImports
    /\ parsedData # <<>>
    /\ imp' = [NoRun EXCEPT !.pc = "getAll",
                            !.log = "Starting Firebase import"]
    /\ UNCHANGED <<inp, out, store, parsedData, hist, nextId, parses, dedup, dhist>>

\* getAll resolves: the run builds existingMap, starts the loop over the
\* array parsedData now refers to, and works up to its first write
ImportGetAllOk ==
    /\ imp.pc = "getAll"
    /\ Resume(advance([imp EXCEPT !.existing = store, !.batch = parsedData,
                                  !.startStore = store],
                      1, nextId))
    /\ UNCHANGED <<inp, out, store, parsedData, hist, parses, dedup, dhist>>

\* getAll rejects
ImportGetAllFail ==
    /\ imp.pc = "getAll"
    /\ imp' = failRun(imp)
    /\ hist' = Append(hist, outcome(imp, FALSE, store))
    /\ UNCHANGED <<inp, out, store, parsedData, nextId, parses, dedup, dhist>>

\* updateCompany resolves: the document gets the employee list, the loop goes on
ImportUpdateOk ==
    /\ imp.pc = "write"
    /\ imp.pending.kind = "update"
    /\ \E n \in 1..Len(store) : store[n].id = imp.pending.id
    /\ store' = [store EXCEPT ![docIndex(store, imp.pending.id)].employees =
                                  imp.pending.employees]
    /\ Resume(advance(imp, imp.i + 1, nextId))
    /\ UNCHANGED <<inp, out, parsedData, hist, parses, dedup, dhist>>

\* addCompany resolves: a new document under an auto-generated id, which
\* getDocs returns at the place its id sorts to; created++, the loop goes on
ImportAddOk ==
    /\ imp.pc = "write"
    /\ imp.pending.kind = "add"
    /\ \E p \in 1..(Len(store) + 1) :
           store' = insertAt(store, p,
                             Company(nextId + 1, imp.pending.name,
                                     imp.pending.domain, imp.pending.employees))
    /\ Resume(advance([imp EXCEPT !.created = @ + 1], imp.i + 1, nextId + 1))
    /\ UNCHANGED <<inp, out, parsedData, hist, parses, dedup, dhist>>

\* updateCompany or addCompany rejects: the catch block ends the run
ImportWriteFail ==
    /\ imp.pc = "write"
    /\ imp' = failRun(imp)
    /\ hist' = Append(hist, outcome(imp, FALSE, store))
    /\ UNCHANGED <<inp, out, store, parsedData, nextId, parses, dedup, dhist>>

\* the final getAll resolves: Storage.save, "Import complete"
ImportSyncOk ==
    /\ imp.pc = "sync"
    /\ imp' = [imp EXCEPT !.pc = "done", !.log = "Import complete"]
    /\ hist' = Append(hist, outcome(imp, TRUE, store))
    /\ UNCHANGED <<inp, out, store, parsedData, nextId, parses, dedup, dhist>>

\* the final getAll rejects
ImportSyncFail ==
    /\ imp.pc = "sync"
    /\ imp' = failRun(imp)
    /\ hist' = Append(hist, outcome(imp, FALSE, store))
    /\ UNCHANGED <<inp, out, store, parsedData, nextId, parses, dedup, dhist>>

Next ==
    \/ \E raw \in RawBatches : ProcessWithAI(raw)
    \/ ImportNoData
    \/ StartImport
    \/ ImportGetAllOk
    \/ ImportGetAllFail
    \/ ImportUpdateOk
    \/ ImportAddOk
    \/ ImportWriteFail
    \/ ImportSyncOk
    \/ ImportSyncFail

Spec == Init /\ [][Next]_vars

----------------------------------------------------------------------------
(* admin.js: deduplicateDatabase *)

\* deduplicateDatabase runs in a behaviour
MaxDedups == 1
\* longest employee list of the first persisted company in SpecDedup
MaxEmployees == 3

\* const uniqueEmployees = []; steps records what the loop did with each
\* employee
emptyAccumulator == [list |-> <<>>, steps |-> <<>>]

\* the match branch keeping the matched entry and pushing the employee too
dedupAt_keepBoth(acc, emp, idx) ==
    [list |-> Append(IF idx # 0
                     THEN [acc.list EXCEPT
                              ![idx] = mergeEmployeeData(acc.list[idx], emp)]
                     ELSE acc.list,
                     emp),
     steps |-> Append(acc.steps,
                      [kind |-> IF idx # 0 THEN "merge" ELSE "push",
                       pos |-> IF idx # 0 THEN idx ELSE Len(acc.list) + 1,
                       emp |-> emp])]

\* uniqueEmployees[index] = mergeEmployeeData(match, emp)
dedupMerge(acc, emp, idx, merged) ==
    [list |-> [acc.list EXCEPT ![idx] = merged],
     steps |-> Append(acc.steps, [kind |-> "merge", pos |-> idx, emp |-> emp])]

\* uniqueEmployees.push(emp)
dedupPush(acc, emp) ==
    [list |-> Append(acc.list, emp),
     steps |-> Append(acc.steps, [kind |-> "push", pos |-> Len(acc.list) + 1,
                                  emp |-> emp])]

\* one iteration of the loop over company.employees, idx being
\* findMatchingEmployee's answer
dedupAt(acc, emp, idx) ==
    IF idx # 0
    THEN dedupMerge(acc, emp, idx, mergeEmployeeData(acc.list[idx], emp))
    ELSE dedupPush(acc, emp)

\* the loop over company.employees from position k on
RECURSIVE uniqueEmployees(_, _, _)
uniqueEmployees(acc, employees, k) ==
    IF k > Len(employees) THEN acc
    ELSE uniqueEmployees(
             dedupAt(acc, employees[k],
                     findMatchingEmployee(Arr(acc.list), employees[k])),
             employees, k + 1)

\* what the loop over company.employees did for company k
fold(k, employees, acc) ==
    [k |-> k, input |-> employees, list |-> acc.list, steps |-> acc.steps]

RECURSIVE dedupAdvance(_, _)

\* company k after its loop, the update called without await: the loop goes
\* on to the next company while the write is in flight
dedupResult_noAwait(run, k, employees, acc) ==
    dedupAdvance([run EXCEPT
                     !.folds = Append(@, fold(k, employees, acc)),
                     !.issued = IF Len(acc.list) < Len(employees)
                                THEN Append(@, k) ELSE @],
                 k + 1)

\* company k after its loop: the update when the list got shorter, the next
\* company otherwise
dedupResult(run, k, employees, acc) ==
    IF Len(acc.list) < Len(employees)
    THEN [run EXCEPT
             !.pc = "write",
             !.i = k,
             !.pending = [NoWrite EXCEPT !.kind = "update",
                                         !.id = run.companies[k].id,
                                         !.employees = acc.list],
             !.removed = Len(employees) - Len(acc.list),
             !.folds = Append(@, fold(k, employees, acc)),
             !.issued = Append(@, k)]
    ELSE dedupAdvance([run EXCEPT !.folds = Append(@, fold(k, employees, acc))],
                      k + 1)

\* the loop over companies resumed at company k: the next write, or the final
\* getAll
dedupAdvance(run, k) ==
    IF k > Len(run.companies)
    THEN [run EXCEPT !.pc = "sync", !.i = k, !.pending = NoWrite,
                     !.removed = 0]
    ELSE IF Len(run.companies[k].employees) <= 1
         THEN dedupAdvance(run, k + 1)
         ELSE dedupResult(run, k, run.companies[k].employees,
                          uniqueEmployees(emptyAccumulator,
                                          run.companies[k].employees, 1))

\* what a finished deduplicateDatabase run leaves behind
dedupOutcome(run, ok, storeAfter) ==
    [ok |-> ok, storeBefore |-> run.startStore, storeAfter |-> storeAfter,
     totalMergedCount |-> run.totalMergedCount, issued |-> run.issued,
     folds |-> run.folds]

\* the catch block of deduplicateDatabase
dedupFail(run) == [run EXCEPT !.pc = "failed", !.log = "Deduplication Error",
                              !.pending = NoWrite]

\* click on btnDeduplicate: deduplicateDatabase up to await getAll()
StartDedup ==
    /\ dedup.pc \in {"idle", "done", "failed"}
    /\ Len(dhist) < MaxDedups
    /\ dedup' = [NoDedup EXCEPT !.pc = "getAll",
                                !.log = "Starting database deduplication process"]
    /\ UNCHANGED <<inp, out, store, parsedData, imp, hist, nextId, parses, dhist>>

\* getAll resolves: the run works up to its first write
DedupGetAllOk ==
    /\ dedup.pc = "getAll"
    /\ dedup' = dedupAdvance([dedup EXCEPT !.companies = store,
                                           !.startStore = store], 1)
    /\ UNCHANGED <<inp, out, store, parsedData, imp, hist, nextId, parses, dhist>>

\* getAll rejects
DedupGetAllFail ==
    /\ dedup.pc = "getAll"
    /\ dedup' = dedupFail(dedup)
    /\ dhist' = Append(dhist, dedupOutcome(dedup, FALSE, store))
    /\ UNCHANGED <<inp, out, store, parsedData, imp, hist, nextId, parses>>

\* updateCompany resolves: the document gets the shorter list,
\* totalMergedCount grows, the loop goes on
DedupUpdateOk ==
    /\ dedup.pc = "write"
    /\ \E n \in 1..Len(store) : store[n].id = dedup.pending.id
    /\ store' = [store EXCEPT ![docIndex(store, dedup.pending.id)].employees =
                                  dedup.pending.employees]
    /\ dedup' = dedupAdvance([dedup EXCEPT !.totalMergedCount = @ + dedup.removed],
                             dedup.i + 1)
    /\ UNCHANGED <<inp, out, parsedData, imp, hist, nextId, parses, dhist>>

\* updateCompany rejects: the catch block ends the run
DedupWriteFail ==
    /\ dedup.pc = "write"
    /\ dedup' = dedupFail(dedup)
    /\ dhist' = Append(dhist, dedupOutcome(dedup, FALSE, store))
    /\ UNCHANGED <<inp, out, store, parsedData, imp, hist, nextId, parses>>

\* the final getAll resolves: Storage.save, "Deduplication complete"
DedupSyncOk ==
    /\ dedup.pc = "sync"
    /\ dedup' = [dedup EXCEPT !.pc = "done", !.log = "Deduplication complete"]
    /\ dhist' = Append(dhist, dedupOutcome(dedup, TRUE, store))
    /\ UNCHANGED <<inp, out, store, parsedData, imp, hist, nextId, parses>>

\* the final getAll rejects
DedupSyncFail ==
    /\ dedup.pc = "sync"
    /\ dedup' = dedupFail(dedup)
    /\ dhist' = Append(dhist, dedupOutcome(dedup, FALSE, store))
    /\ UNCHANGED <<inp, out, store, parsedData, imp, hist, nextId, parses>>

NextDedup ==
    \/ StartDedup
    \/ DedupGetAllOk
    \/ DedupGetAllFail
    \/ DedupUpdateOk
    \/ DedupWriteFail
    \/ DedupSyncOk
    \/ DedupSyncFail

\* persisted employees with duplicates among them: D2 is D1 by name and
\* title, D3 is D1 by email, D4 is D2 by phone, D5 is nobody else
D1 == [Named(W_John, W_Doe) EXCEPT !.id = 11, !.email = W_johnAtX,
                                   !.jobTitle = W_Engineer]
D2 == [Named(W_John, W_Doe) EXCEPT !.id = 12, !.phone = W_phone1,
                                   !.jobTitle = W_SeniorEngineer,
                                   !.phoneLocked = TRUE]
D3 == [Named(W_Jon, W_Smith) EXCEPT !.id = 13, !.email = W_JohnAtXPadded,
                                    !.phone = W_phone2, !.jobTitle = W_Sales]
D4 == [Named(W_Ann, W_Lee) EXCEPT !.id = 14, !.phone = W_phone1Alt,
                                  !.location = W_Pune]
D5 == [Named(W_Bob, W_Ray) EXCEPT !.id = 15, !.linkedin = W_bobrayUrl]

DedupPool == {D1, D2, D3, D4, D5}

\* contents of the collection when the deduplication is started
DedupStores ==
    {<<Company(1, W_Acme, W_acmeCom, l1), Company(2, W_Beta, <<>>, l2)>> :
        l1 \in ListsUpTo(DedupPool, MaxEmployees),
        l2 \in {<<>>, <<D5, D4>>, <<D3, D5, D1>>}}

InitDedup ==
    /\ inp = [fn |-> "none"]
    /\ out = NoCall
    /\ store \in DedupStores
    /\ parsedData = <<>>
    /\ imp = NoRun
    /\ hist = <<>>
    /\ nextId = 0
    /\ parses = 0
    /\ dedup = NoDedup
    /\ dhist = <<>>

SpecDedup == InitDedup /\ [][NextDedup]_vars

----------------------------------------------------------------------------
(* admin.js: both drivers on one page *)

\* contents of the collection when the admin page is opened on a database
\* with duplicates
AdminStores ==
    {<<Company(1, W_Acme, W_acmeCom, <<D1, D2, D5>>),
       Company(2, W_Beta, <<>>, <<D3, D1>>)>>,
     <<Company(1, W_Acme, W_acmeCom, <<Persisted>>)>>}

\* decoded AI responses the page has parsed before the drivers are started
AdminBatches ==
    {<<Company(0, W_Beta, W_acmeCom,
               <<[Named(W_John, W_Doe) EXCEPT !.email = W_johnAtX,
                                              !.jobTitle = W_Engineer]>>),
       Company(0, W_Acme, W_acmeIo,
               <<[Named(W_Pat, W_Kim) EXCEPT !.jobTitle = W_SeniorEngineer],
                 [Named(W_John, W_Doe) EXCEPT !.jobTitle = W_Manager]>>)>>,
     <<Company(0, W_ACME, Null,
               <<[Named(W_Ann, W_Lee) EXCEPT !.phone = W_phone1Alt]>>)>>}

\* the page after processWithAI has resolved, generateId having given 21, ...
InitAdmin ==
    /\ inp = [fn |-> "none"]
    /\ out = NoCall
    /\ store \in AdminStores
    /\ parsedData \in {normalizeData(raw, 20) : raw \in AdminBatches}
    /\ imp = NoRun
    /\ hist = <<>>
    /\ nextId = 30
    /\ parses = 1
    /\ dedup = NoDedup
    /\ dhist = <<>>

\* clicks on btnImport and btnDeduplicate in a behaviour
MaxClicks == 2

\* an async function that has been called and has not returned yet
running(run) == IF run.pc \in {"getAll", "write", "sync"} THEN 1 ELSE 0

\* the runs the clicks have started so far
started == Len(hist) + Len(dhist) + running(imp) + running(dedup)

\* btnImport.onclick = importToFirebase
ClickImport ==
    /\ started < MaxClicks
    /\ StartImport

\* btnDedup.onclick: deduplicateDatabase()
ClickDedup ==
    /\ started < MaxClicks
    /\ StartDedup

\* the click handlers and the promise continuations of both drivers, in any
\* interleaving
NextAdmin ==
    \/ ClickImport
    \/ ClickDedup
    \/ ImportGetAllOk
    \/ ImportGetAllFail
    \/ ImportUpdateOk
    \/ ImportAddOk
    \/ ImportWriteFail
    \/ ImportSyncOk
    \/ ImportSyncFail
    \/ DedupGetAllOk
    \/ DedupGetAllFail
    \/ DedupUpdateOk
    \/ DedupWriteFail
    \/ DedupSyncOk
    \/ DedupSyncFail

SpecAdmin == InitAdmin /\ [][NextAdmin]_vars

----------------------------------------------------------------------------
(* Properties of findMatchingEmployee *)

OnlyNameTitle(newEmp, existingEmp) ==
    /\ nameTitleTest(newEmp, existingEmp)
    /\ ~emailTest(newEmp, existingEmp)
    /\ ~phoneTest(newEmp, existingEmp)
    /\ ~linkedinTest(newEmp, existingEmp)

AnyTest(newEmp, existingEmp) ==
    \/ emailTest(newEmp, existingEmp)
    \/ phoneTest(newEmp, existingEmp)
    \/ linkedinTest(newEmp, existingEmp)
    \/ nameTitleTest(newEmp, existingEmp)

\* C4: findMatchingEmployee returns the earliest record of the list that
\* satisfies at least one of the four tests against the candidate, and null
\* (0) when no record satisfies a test or the list is not an array; a record
\* satisfying no test is never returned.
C4_EarliestMatch ==
    (out.op = "find") =>
        LET items == inp.list.items
        IN  IF ~inp.list.isArray THEN out.idx = 0
            ELSE /\ out.idx \in 0..Len(items)
                 /\ (out.idx # 0) =>
                        /\ AnyTest(inp.emp, items[out.idx])
                        /\ \A j \in 1..(out.idx - 1) : ~AnyTest(inp.emp, items[j])
                 /\ (out.idx = 0) =>
                        \A j \in 1..Len(items) : ~AnyTest(inp.emp, items[j])

\* C4 witness: the second record is returned, the first satisfying no test
C4_Witness ==
    /\ out.op = "find"
    /\ out.idx = 2
    /\ ~AnyTest(inp.emp, inp.list.items[1])

\* C5 as stated: with one record matching only by name+title and another
\* matching by email, the email-matching record is returned in both
\* orderings of the two.
C5_EmailMatchWins ==
    (out.op = "find" /\ Len(inp.list.items) = 2) =>
        \A i, j \in 1..2 :
            (/\ i # j
             /\ OnlyNameTitle(inp.emp, inp.list.items[i])
             /\ emailTest(inp.emp, inp.list.items[j]))
                => out.idx = j

\* C5 amended: with one record matching only by name+title and another
\* matching by email, and no other record of the list matching, the one of
\* the two that comes first in the list is returned.
C5_FirstOfTheTwo ==
    (out.op = "find") =>
        LET items == inp.list.items
        IN  \A i, j \in 1..Len(items) :
                (/\ i # j
                 /\ OnlyNameTitle(inp.emp, items[i])
                 /\ emailTest(inp.emp, items[j])
                 /\ \A k \in 1..Len(items) :
                        k \notin {i, j} => ~AnyTest(inp.emp, items[k]))
                    => out.idx = IF i < j THEN i ELSE j

\* C5 witness: the name+title record comes first and is the one returned
C5_Witness ==
    /\ out.op = "find"
    /\ Len(inp.list.items) = 2
    /\ OnlyNameTitle(inp.emp, inp.list.items[1])
    /\ emailTest(inp.emp, inp.list.items[2])
    /\ out.idx = 1

\* C6: a pair of records in which, for each of email, phone and LinkedIn, at
\* least one side is empty or a placeholder, and which the name+title test
\* does not match, is never matched, even with the identical placeholder on
\* both sides.
C6_PlaceholderNeverMatches ==
    (out.op = "find") =>
        \A i \in 1..Len(inp.list.items) :
            (/\ \A f \in {"email", "phone", "linkedin"} :
                    \/ inp.emp[f] \in PlaceholderValues
                    \/ inp.list.items[i][f] \in PlaceholderValues
             /\ ~nameTitleTest(inp.emp, inp.list.items[i]))
                => out.idx # i

\* C6 witness: both sides carry the same placeholder email, and no match
C6_Witness ==
    /\ out.op = "find"
    /\ out.idx = 0
    /\ Len(inp.list.items) = 1
    /\ inp.emp.email = S_na
    /\ inp.list.items[1].email = S_na

\* C7 as stated: equal non-empty normalized full names match whenever one of
\* the two job titles is empty or a placeholder token.
C7_PlaceholderTitleMatches ==
    (out.op = "find" /\ Len(inp.list.items) = 1) =>
        ((/\ fullName(inp.emp) = fullName(inp.list.items[1])
          /\ fullName(inp.emp) # <<>>
          /\ \/ inp.emp.jobTitle \in PlaceholderValues
             \/ inp.list.items[1].jobTitle \in PlaceholderValues)
            => out.idx = 1)

\* C8 as stated: two LinkedIn values that are forms of the same profile
\* slug, in any letter case, match.
C8_ProfileFormsMatch ==
    (out.op = "find" /\ Len(inp.list.items) = 1) =>
        ((/\ inp.emp.linkedin # Null
          /\ inp.list.items[1].linkedin # Null
          /\ toLowerCase(inp.emp.linkedin) \in ProfileForms(W_jdoe)
          /\ toLowerCase(inp.list.items[1].linkedin) \in ProfileForms(W_jdoe))
            => out.idx = 1)

----------------------------------------------------------------------------
(* Properties of mergeEmployeeData *)

\* C9: with both phone values non-empty, the merged phone is source's raw
\* value when the digit-only forms differ, and target's raw value, in its
\* original formatting, when they are equal.
C9_PhoneMerge ==
    (/\ out.op = "merge"
     /\ ~isEmpty(inp.target.phone)
     /\ ~isEmpty(inp.source.phone))
        => out.merged.phone =
               IF digitsOf(inp.source.phone) # digitsOf(inp.target.phone)
               THEN inp.source.phone
               ELSE inp.target.phone

\* C9 witness: same digits in another formatting, target's formatting kept
C9_Witness ==
    /\ out.op = "merge"
    /\ inp.target.phone = W_phone1
    /\ inp.source.phone = W_phone1Alt
    /\ out.merged.phone = W_phone1

\* C10: for email, jobTitle, linkedin and location, both values non-empty,
\* the merged value is source's exactly when source's raw string is strictly
\* longer than target's, and target's otherwise.
C10_LongerWins ==
    (out.op = "merge") =>
        \A f \in {"email", "jobTitle", "linkedin", "location"} :
            (~isEmpty(inp.target[f]) /\ ~isEmpty(inp.source[f]))
                => out.merged[f] =
                       IF Len(inp.source[f]) > Len(inp.target[f])
                       THEN inp.source[f]
                       ELSE inp.target[f]

\* C10 witness: two different titles of equal length, target's kept
C10_Witness ==
    /\ out.op = "merge"
    /\ inp.target.jobTitle = W_Eng
    /\ inp.source.jobTitle = W_Dev
    /\ out.merged.jobTitle = W_Eng

\* C11: with both target's and source's firstName (lastName) non-empty, the
\* merged firstName (lastName) is target's, whatever the two lengths.
C11_NamesKept ==
    (out.op = "merge") =>
        \A f \in {"firstName", "lastName"} :
            (~isEmpty(inp.target[f]) /\ ~isEmpty(inp.source[f]))
                => out.merged[f] = inp.target[f]

\* C11 witness: source's first name is the longer one, target's is kept
C11_Witness ==
    /\ out.op = "merge"
    /\ inp.target.firstName = W_Bob
    /\ inp.source.firstName = W_Robert
    /\ out.merged.firstName = W_Bob

\* the empty values among the inputs of SpecMerge: absent, blank and the
\* placeholder tokens
EmptyInputs == PlaceholderValues \cup {W_noPhoneListed}

\* C12: for each of the seven merge fields with at least one side empty, the
\* merged value is source's when target's is empty and source's is not, and
\* target's value unchanged in every other such case (both empty, or target
\* non-empty and source empty).
C12_EmptySides ==
    (out.op = "merge") =>
        \A k \in 1..Len(MergeFields) :
            LET f == MergeFields[k]
            IN  (inp.target[f] \in EmptyInputs \/ inp.source[f] \in EmptyInputs)
                    => out.merged[f] =
                           IF /\ inp.target[f] \in EmptyInputs
                              /\ inp.source[f] \notin EmptyInputs
                           THEN inp.source[f]
                           ELSE inp.target[f]

\* C12 witness: a real target email against a placeholder source email, the
\* real one kept, and a job title absent on both sides, left absent
C12_Witness ==
    /\ out.op = "merge"
    /\ inp.target.email = W_jdAtY
    /\ inp.source.email = S_noEmail
    /\ out.merged.email = W_jdAtY
    /\ inp.target.jobTitle = Null
    /\ inp.source.jobTitle = Null
    /\ out.merged.jobTitle = Null

\* C13: the result of mergeEmployeeData has target's value in every field
\* outside the seven merge fields (id and phoneLocked are target's, never
\* source's), and the call changes neither of its two arguments.
C13_FrameKept ==
    [][(out'.op = "merge" /\ out.op = "none") =>
          /\ DOMAIN out'.merged = DOMAIN inp.target
          /\ \A f \in DOMAIN inp.target :
                 (\A k \in 1..Len(MergeFields) : MergeFields[k] # f)
                     => out'.merged[f] = inp.target[f]
          /\ out'.merged.id = inp.target.id
          /\ out'.merged.phoneLocked = inp.target.phoneLocked
          /\ inp'.target = inp.target
          /\ inp'.source = inp.source]_vars

\* C13 witness: a merge that took a field from source and kept target's id
\* and phoneLocked, which differ from source's
C13_Witness ==
    /\ out.op = "merge"
    /\ out.merged.location = inp.source.location
    /\ inp.source.location = W_PuneIndia
    /\ out.merged.id = 5
    /\ inp.source.id = 9
    /\ out.merged.phoneLocked
    /\ ~inp.source.phoneLocked

----------------------------------------------------------------------------
(* Properties of importToFirebase *)

\* C1 as stated: when the write for one parsed company fails, the write of
\* every later company of the batch is still attempted; a failed write never
\* aborts the rest of the batch.
C1_FailedWriteDoesNotAbort ==
    (imp.pc = "failed" /\ imp.i \in 1..Len(imp.batch))
        => Len(imp.issued) = Len(imp.batch)

\* C2: in the employee list written for a company, the position of every
\* record a parsed employee was matched to carries the matched record's id,
\* never the differing id of the parsed employee, and every parsed employee
\* that matched nothing sits at the position it was appended to with its own
\* id, or with a fresh one when it has none.
C2_MatchedKeepsId ==
    (imp.pc = "write" /\ imp.pending.kind = "update") =>
        \A n \in 1..Len(imp.steps) :
            LET s == imp.steps[n]
                written == imp.pending.employees[s.pos]
            IN  /\ (s.kind = "Updated") =>
                       /\ written.id = s.matchId
                       /\ s.id = s.matchId
                       /\ (s.newId # s.matchId) => (written.id # s.newId)
                /\ (s.kind = "Added") =>
                       /\ written.id = s.id
                       /\ (s.newId # 0) => (s.id = s.newId)
                       /\ (s.newId = 0) =>
                              /\ s.id # 0
                              /\ \A k \in 1..Len(imp.pending.employees) :
                                     (k # s.pos) =>
                                         (imp.pending.employees[k].id # s.id)

\* C2 witness: one write in which a parsed employee with an id of its own was
\* merged into a persisted record and another was appended
C2_Witness ==
    /\ imp.pc = "write"
    /\ imp.pending.kind = "update"
    /\ \E m, n \in 1..Len(imp.steps) :
           /\ imp.steps[m].kind = "Updated"
           /\ imp.steps[m].newId # imp.steps[m].matchId
           /\ imp.steps[n].kind = "Added"

\* run r + 1 imported the batch of run r right after it, and both succeeded
ImportedTwice(r) ==
    /\ hist[r].ok
    /\ hist[r + 1].ok
    /\ hist[r + 1].batch = hist[r].batch
    /\ hist[r + 1].storeBefore = hist[r].storeAfter

\* the persisted employee ids, company by company, in list order
EmployeeIds(docs) ==
    [n \in 1..Len(docs) |->
        [k \in 1..Len(docs[n].employees) |-> docs[n].employees[k].id]]

\* C3 as stated: a second successful import of the same batch creates no
\* company, appends no employee and leaves every persisted employee id as it
\* was after the first.
C3_SecondImportChangesNothing ==
    \A r \in 1..(Len(hist) - 1) :
        ImportedTwice(r) =>
            /\ hist[r + 1].created = 0
            /\ hist[r + 1].updated = 0
            /\ EmployeeIds(hist[r + 1].storeAfter) = EmployeeIds(hist[r].storeAfter)

\* C3 amended: a second successful import of the same batch creates no
\* company and leaves every employee persisted after the first import at its
\* position with its id; it may append employees.
C3_SecondImportKeepsIds ==
    \A r \in 1..(Len(hist) - 1) :
        ImportedTwice(r) =>
            LET before == hist[r].storeAfter
                after == hist[r + 1].storeAfter
            IN  /\ hist[r + 1].created = 0
                /\ Len(after) = Len(before)
                /\ \A n \in 1..Len(before) :
                       /\ after[n].id = before[n].id
                       /\ Len(after[n].employees) >= Len(before[n].employees)
                       /\ \A k \in 1..Len(before[n].employees) :
                              after[n].employees[k].id = before[n].employees[k].id

\* C3 witness: the second import of the batch merged a parsed employee into a
\* persisted record
C3_Witness ==
    /\ Len(hist) >= 2
    /\ ImportedTwice(1)
    /\ hist[2].employeesUpdated > 0

\* the two names are equal ignoring letter case
EqualIgnoringCase(a, b) ==
    /\ Len(a) = Len(b)
    /\ \A n \in 1..Len(a) : toLowerChar(a[n]) = toLowerChar(b[n])

\* the companies getAll returned to the run whose name is the name of the
\* parsed company, ignoring letter case
SameName(run, company) ==
    {n \in 1..Len(run.existing) :
        EqualIgnoringCase(run.existing[n].name, company.name)}

\* C18: the write issued for a parsed company is an update of a company that
\* getAll returned to the run exactly when the two names are equal ignoring
\* letter case, and the add of the parsed company otherwise; the update goes
\* to a company of that name and carries at least its employees, whatever the
\* two domains are.
C18_MatchByNameOnly ==
    (imp.pc = "write") =>
        LET company == imp.batch[imp.i]
        IN  /\ (imp.pending.kind = "update") <=> (SameName(imp, company) # {})
            /\ (imp.pending.kind = "add") <=> (SameName(imp, company) = {})
            /\ (imp.pending.kind = "update") =>
                   \E n \in SameName(imp, company) :
                       /\ imp.existing[n].id = imp.pending.id
                       /\ Len(imp.pending.employees) >=
                              Len(imp.existing[n].employees)
            /\ (imp.pending.kind = "add") =>
                   /\ imp.pending.name = company.name
                   /\ imp.pending.domain = company.domain
                   /\ imp.pending.employees = company.employees

\* C18 witness: the first company of the batch, with the domain of a
\* persisted company and another name, has been added as new, and the second,
\* with the name of that persisted company and another domain, is being
\* merged into it
C18_Witness ==
    /\ imp.pc = "write"
    /\ imp.i = 2
    /\ imp.created = 1
    /\ imp.pending.kind = "update"
    /\ \E n \in 1..Len(imp.existing) :
           /\ imp.existing[n].id = imp.pending.id
           /\ imp.existing[n].domain = imp.batch[1].domain
           /\ imp.existing[n].domain # imp.batch[2].domain
           /\ ~EqualIgnoringCase(imp.existing[n].name, imp.batch[1].name)

\* 1, 2, ..., k
UpTo(k) == [n \in 1..k |-> n]

\* the employees the loop over company.employees has appended
AddedSteps(run) == {n \in 1..Len(run.steps) : run.steps[n].kind = "Added"}

\* C19: when the write for parsed company i is issued, the run has issued one
\* write for each of the companies 1..i and no other; an update is issued
\* with every employee of the parsed company matched or appended, and carries
\* the whole list: the persisted employees and the appended ones; an add
\* carries the parsed company's employees; a run that reaches its final
\* getAll has issued one write per parsed company.
C19_OneWritePerCompany ==
    /\ (imp.pc = "write") =>
           /\ imp.issued = UpTo(imp.i)
           /\ imp.i <= Len(imp.batch)
           /\ (imp.pending.kind = "update") =>
                  /\ Len(imp.steps) = Len(imp.batch[imp.i].employees)
                  /\ \E n \in 1..Len(imp.existing) :
                         /\ imp.existing[n].id = imp.pending.id
                         /\ Len(imp.pending.employees) =
                                Len(imp.existing[n].employees) +
                                Cardinality(AddedSteps(imp))
                  /\ \A n \in 1..Len(imp.steps) :
                         imp.steps[n].pos \in 1..Len(imp.pending.employees)
           /\ (imp.pending.kind = "add") =>
                  imp.pending.employees = imp.batch[imp.i].employees
    /\ (imp.pc \in {"sync", "done"}) => (imp.issued = UpTo(Len(imp.batch)))
    /\ (imp.pc \in {"getAll", "failed"}) => (Len(imp.issued) <= Len(imp.batch))
    /\ \A r \in 1..Len(hist) :
           /\ Len(hist[r].issued) <= Len(hist[r].batch)
           /\ hist[r].ok => (hist[r].issued = UpTo(Len(hist[r].batch)))

\* C19 witness: the second write of a run is the update of a company with two
\* parsed employees, one merged into a persisted record and one appended
C19_Witness ==
    /\ imp.pc = "write"
    /\ imp.issued = <<1, 2>>
    /\ imp.pending.kind = "update"
    /\ Len(imp.steps) = 2
    /\ imp.steps[1].kind = "Updated"
    /\ imp.steps[2].kind = "Added"

\* no two companies of the batch have the same name ignoring letter case
DistinctNames(batch) ==
    \A a, b \in 1..Len(batch) :
        (a # b) => ~EqualIgnoringCase(batch[a].name, batch[b].name)

\* what the loop over company.employees did with each employee of the parsed
\* company, target being the persisted company it was reconciled into: the
\* id of the record it was merged into, or the id it was appended under
Reconciled(target, company) ==
    reconcileCompany(NoRun, target, company, 0).steps

\* every record the steps name is in the list
AllStored(steps, list) ==
    \A k \in 1..Len(steps) : \E j \in 1..Len(list) : list[j].id = steps[k].id

\* the employees of the parsed company are represented in what finished run
\* h has left stored for the persisted company target
RepresentedAfter(h, target, company) ==
    \A n \in 1..Len(h.storeAfter) :
        (h.storeAfter[n].id = target.id) =>
            AllStored(Reconciled(target, company), h.storeAfter[n].employees)

\* the import run h has lost none of the employees of its batch
NoneLost(h) ==
    \A c \in 1..Len(h.batch) :
        existingMapHas(h.storeBefore, toLowerCase(h.batch[c].name)) =>
            RepresentedAfter(h,
                             existingMapGet(h.storeBefore,
                                            toLowerCase(h.batch[c].name)),
                             h.batch[c])

\* C26 as stated: after an import run that completed, every employee of a
\* parsed company whose name is, ignoring letter case, the name of a company
\* persisted before the run is in the employee list stored for that company,
\* as the record it was merged into or as the record it was appended as, also
\* when two companies of the batch have that name.
C26_NoEmployeeLost ==
    \A r \in 1..Len(hist) : hist[r].ok => NoneLost(hist[r])

\* the same for the runs whose batch has no two companies of one name
C26_NoEmployeeLostOnDistinctNames ==
    \A r \in 1..Len(hist) :
        (hist[r].ok /\ DistinctNames(hist[r].batch)) => NoneLost(hist[r])

\* the collection holds at most one company per lower-cased name
UniqueNames(docs) ==
    \A a, b \in 1..Len(docs) :
        (a # b) => (toLowerCase(docs[a].name) # toLowerCase(docs[b].name))

\* C27 as stated: an import run that starts on a collection with at most one
\* company per lower-cased name leaves a collection with at most one company
\* per lower-cased name, whatever the batch, also when two companies of the
\* batch have one name that no persisted company has.
C27_NamesStayUnique ==
    \A r \in 1..Len(hist) :
        (hist[r].ok /\ UniqueNames(hist[r].storeBefore))
            => UniqueNames(hist[r].storeAfter)

\* the same for the runs whose batch has no two companies of one name
C27_NamesStayUniqueOnDistinctNames ==
    \A r \in 1..Len(hist) :
        (hist[r].ok /\ UniqueNames(hist[r].storeBefore) /\ DistinctNames(hist[r].batch))
            => UniqueNames(hist[r].storeAfter)

\* the persisted company the pending update of the run is written for, as
\* the run has read it
WrittenFor(run) ==
    existingMapGet(run.existing, toLowerCase(run.batch[run.i].name))

\* number of Added steps among the first m steps
RECURSIVE AddedUpTo(_, _)
AddedUpTo(steps, m) ==
    IF m = 0 THEN 0
    ELSE AddedUpTo(steps, m - 1) + (IF steps[m].kind = "Added" THEN 1 ELSE 0)

\* the persisted employees are in the written list where they were, under
\* their ids, and unchanged when no parsed employee was merged into them
PersistedKept(persisted, written, steps) ==
    /\ Len(written) >= Len(persisted)
    /\ \A k \in 1..Len(persisted) :
           /\ written[k].id = persisted[k].id
           /\ (\A m \in 1..Len(steps) :
                   ~(steps[m].kind = "Updated" /\ steps[m].pos = k))
                  => (written[k] = persisted[k])

\* the parsed employees that matched nothing follow the persisted ones, in
\* parsed order
AppendedAtEnd(persisted, written, parsed, steps) ==
    /\ Len(steps) = Len(parsed)
    /\ Len(written) = Len(persisted) + AddedUpTo(steps, Len(steps))
    /\ \A m \in 1..Len(steps) :
           (steps[m].kind = "Added") =>
               /\ steps[m].pos = Len(persisted) + AddedUpTo(steps, m)
               /\ written[steps[m].pos].firstName = parsed[m].firstName
               /\ written[steps[m].pos].lastName = parsed[m].lastName
               /\ written[steps[m].pos].id = steps[m].id

\* C30: in the employee list an import run writes for an existing company,
\* every employee persisted before the run is at the position it had, with
\* the id it had; a persisted employee that no parsed employee matched is
\* written back unchanged; the parsed employees that matched nothing are
\* added only at the end, in parsed order.
C30_PersistedKeptInPlace ==
    (imp.pc = "write" /\ imp.pending.kind = "update") =>
        /\ PersistedKept(WrittenFor(imp).employees, imp.pending.employees,
                         imp.steps)
        /\ AppendedAtEnd(WrittenFor(imp).employees, imp.pending.employees,
                         imp.batch[imp.i].employees, imp.steps)

\* C30 witness: an update of a company with two persisted employees, one of
\* them matched and the other one not, and a parsed employee appended
C30_Witness ==
    /\ imp.pc = "write"
    /\ imp.pending.kind = "update"
    /\ Len(WrittenFor(imp).employees) >= 2
    /\ \E m, n \in 1..Len(imp.steps) :
           /\ imp.steps[m].kind = "Updated"
           /\ imp.steps[n].kind = "Added"
    /\ \E k \in 1..Len(WrittenFor(imp).employees) :
           \A m \in 1..Len(imp.steps) :
               ~(imp.steps[m].kind = "Updated" /\ imp.steps[m].pos = k)

----------------------------------------------------------------------------
(* Properties of deduplicateDatabase *)

\* number of employees the loop merged into an accumulator entry
MergeSteps(steps) ==
    Cardinality({n \in 1..Len(steps) : steps[n].kind = "merge"})

ReplayMerge(prev, s) ==
    [prev EXCEPT ![s.pos] = mergeEmployeeData(prev[s.pos], s.emp)]

\* the accumulator after the first n steps, starting from the empty list
RECURSIVE Replay(_, _)
Replay(steps, n) ==
    IF n = 0 THEN <<>>
    ELSE IF steps[n].kind = "merge"
         THEN ReplayMerge(Replay(steps, n - 1), steps[n])
         ELSE Append(Replay(steps, n - 1), steps[n].emp)

\* a step of the loop is a merge of the employee into an entry of the
\* accumulator prev that it matches, or a push of an employee that matches no
\* entry
StepIsMergeOrPush(emp, step, prev) ==
    /\ step.emp = emp
    /\ IF step.kind = "merge"
       THEN /\ step.pos \in 1..Len(prev)
            /\ matchesEmployee(emp, prev[step.pos])
       ELSE /\ step.pos = Len(prev) + 1
            /\ \A j \in 1..Len(prev) : ~matchesEmployee(emp, prev[j])

\* C14: self-dedup of a company's employee list starts from the empty
\* accumulator and takes the employees in list order, each one merged into
\* the accumulator entry it matches (the entry replaced by merge(entry,
\* employee)) or appended unchanged; the result is never longer than the
\* input, and the number of duplicates reported as removed is input length
\* minus output length, which is the number of merges performed.
C14_SelfDedupFold ==
    /\ \A n \in 1..Len(dedup.folds) :
           /\ Len(dedup.folds[n].steps) = Len(dedup.folds[n].input)
           /\ \A m \in 1..Len(dedup.folds[n].steps) :
                  StepIsMergeOrPush(dedup.folds[n].input[m],
                                    dedup.folds[n].steps[m],
                                    Replay(dedup.folds[n].steps, m - 1))
           /\ dedup.folds[n].list =
                  Replay(dedup.folds[n].steps, Len(dedup.folds[n].steps))
           /\ Len(dedup.folds[n].list) <= Len(dedup.folds[n].input)
           /\ Len(dedup.folds[n].input) - Len(dedup.folds[n].list) =
                  MergeSteps(dedup.folds[n].steps)
    /\ (dedup.pc = "write") =>
           /\ dedup.folds # <<>>
           /\ dedup.folds[Len(dedup.folds)].k = dedup.i
           /\ dedup.folds[Len(dedup.folds)].input =
                  dedup.companies[dedup.i].employees
           /\ dedup.pending.employees = dedup.folds[Len(dedup.folds)].list
           /\ dedup.removed = Len(dedup.companies[dedup.i].employees)
                                  - Len(dedup.pending.employees)
           /\ dedup.removed = MergeSteps(dedup.folds[Len(dedup.folds)].steps)

\* C14 witness: a list of three employees collapsed into one record by two
\* merges, the update reporting two duplicates removed
C14_Witness ==
    /\ dedup.pc = "write"
    /\ Len(dedup.companies[dedup.i].employees) = 3
    /\ Len(dedup.pending.employees) = 1
    /\ dedup.removed = 2

\* the list without its entry at position a
Others(list, a) ==
    [n \in 1..(Len(list) - 1) |-> IF n < a THEN list[n] ELSE list[n + 1]]

\* no entry of the list is matched by findMatchingEmployee against the other
\* entries
NoEntryMatchesAnother(list) ==
    \A a \in 1..Len(list) :
        findMatchingEmployee(Arr(Others(list, a)), list[a]) = 0

\* the loop run again on its own output merges nothing: every step is a push
\* and the list comes back as it is, so no update would be issued
RerunMergesNothing(list) ==
    /\ MergeSteps(uniqueEmployees(emptyAccumulator, list, 1).steps) = 0
    /\ uniqueEmployees(emptyAccumulator, list, 1).list = list

\* C28 as stated: in the list the self-dedup loop produces for a company, no
\* entry is matched by findMatchingEmployee against any other entry, and the
\* loop run again on that list merges nothing (so it would issue no write),
\* for every input list and every order of its employees.
C28_OnePassFixpoint ==
    \A n \in 1..Len(dedup.folds) :
        /\ NoEntryMatchesAnother(dedup.folds[n].list)
        /\ RerunMergesNothing(dedup.folds[n].list)

\* the same for the loops that merged nothing: a list that comes out as it
\* went in has no entry matching an earlier one
C28_FixpointWhenNothingMerged ==
    \A n \in 1..Len(dedup.folds) :
        (MergeSteps(dedup.folds[n].steps) = 0)
            => RerunMergesNothing(dedup.folds[n].list)

----------------------------------------------------------------------------
(* Properties of the parsers *)

\* the normalized grouping key: (domain or name) lowercased, a leading
\* http:// or https://, a leading www. and one trailing / removed
GroupingKey(domain, name) ==
    stripTrailingSlash(
        stripLeading(stripLeading(toLowerCase(IF domain = <<>> THEN name ELSE domain),
                                  {S_http, S_https}),
                     {S_www}))

\* C15 as stated: in the result of a parse call (CSV, flat JSON rows or
\* pre-grouped JSON) no two companies have the same normalized grouping key.
C15_OneCompanyPerKey ==
    (out.op = "parse") =>
        \A a, b \in 1..Len(out.result) :
            (a # b) =>
                GroupingKey(out.result[a].domain, out.result[a].name)
                    # GroupingKey(out.result[b].domain, out.result[b].name)

\* C16 as stated: in the result of a parse call (CSV, flat JSON rows or
\* pre-grouped JSON) every employee has a non-empty firstName or a non-empty
\* lastName.
C16_NamedEmployeesOnly ==
    (out.op = "parse") =>
        \A c \in 1..Len(out.result) :
            \A k \in 1..Len(out.result[c].employees) :
                \/ out.result[c].employees[k].firstName # <<>>
                \/ out.result[c].employees[k].lastName # <<>>

\* the value a row gives for a field: under the recognized header, else under
\* the canonical key, else d
RowField(item, header, key, d) ==
    orDefault(get(item, header), orDefault(get(item, key), d))

RowKey(item) ==
    GroupingKey(RowField(item, H_CompanyDomain, K_domain, <<>>),
                RowField(item, H_CompanyName, K_name, W_NA))

RowHasName(item) ==
    \/ RowField(item, H_FirstName, K_firstName, <<>>) # <<>>
    \/ RowField(item, H_LastName, K_lastName, <<>>) # <<>>

\* the call took the CSV parser or the flat branch of the JSON parser
FlatParse ==
    /\ out.op = "parse"
    /\ \/ inp.fn = "parseCSV"
       \/ inp.data = <<>>
       \/ K_employees \notin DOMAIN inp.data[1]

\* the rows that are the first of their grouping key
FirstRows ==
    {n \in 1..Len(inp.data) :
        \A m \in 1..(n - 1) : RowKey(inp.data[m]) # RowKey(inp.data[n])}

\* the named rows with the grouping key of row n
MemberRows(n) ==
    {m \in 1..Len(inp.data) :
        RowKey(inp.data[m]) = RowKey(inp.data[n]) /\ RowHasName(inp.data[m])}

\* the c-th smallest member of a set of row numbers
NthOf(S, c) == CHOOSE n \in S : Cardinality({m \in S : m < n}) = c - 1

CompanyFromRow(company, item) ==
    /\ company.name = RowField(item, H_CompanyName, K_name, W_NA)
    /\ company.domain = RowField(item, H_CompanyDomain, K_domain, <<>>)
    /\ company.industry = RowField(item, H_CompanyIndustry, K_industry, <<>>)

EmployeeFromRow(employee, item) ==
    /\ employee.firstName = RowField(item, H_FirstName, K_firstName, <<>>)
    /\ employee.lastName = RowField(item, H_LastName, K_lastName, <<>>)
    /\ employee.email = RowField(item, H_Email, K_email, <<>>)
    /\ employee.jobTitle =
           RowField(item, H_JobTitle, K_jobTitle, orDefault(get(item, K_title), <<>>))

\* C17: in the CSV and flat-JSON parsers the companies are the grouping keys
\* in order of first appearance, each with the company fields of the first
\* row of its key, whatever later rows of the key say, and with one employee
\* for every named row of its key, in input row order; the ids of the
\* companies differ.
C17_FirstRowMakesCompany ==
    FlatParse =>
        /\ Len(out.result) = Cardinality(FirstRows)
        /\ \A c \in 1..Len(out.result) :
               /\ CompanyFromRow(out.result[c], inp.data[NthOf(FirstRows, c)])
               /\ Len(out.result[c].employees) =
                      Cardinality(MemberRows(NthOf(FirstRows, c)))
               /\ \A k \in 1..Len(out.result[c].employees) :
                      EmployeeFromRow(
                          out.result[c].employees[k],
                          inp.data[NthOf(MemberRows(NthOf(FirstRows, c)), k)])
               /\ \A d \in 1..Len(out.result) :
                      (c # d) => out.result[c].id # out.result[d].id

\* C17 witness: two CSV rows of one grouping key under different company
\* names, one company with the first row's name and both employees
C17_Witness ==
    /\ out.op = "parse"
    /\ inp.fn = "parseCSV"
    /\ Len(inp.data) = 2
    /\ inp.data[1][H_CompanyName] = W_Acme
    /\ inp.data[2][H_CompanyName] = W_AcmeInc
    /\ Len(out.result) = 1
    /\ out.result[1].name = W_Acme
    /\ Len(out.result[1].employees) = 2

\* the ids of the companies and employees a parse call returned, one entry
\* per record
ReturnedIds(companies) ==
    [n \in 1..Len(companies) |->
        <<companies[n].id>> \o
            [k \in 1..Len(companies[n].employees) |-> companies[n].employees[k].id]]

\* C22 as stated: every Company and every Employee a parse call returns has
\* an id generateId gave during that call, the page having drawn no id
\* before it; no two records of the result have the same id.
C22_FreshIds ==
    (out.op = "parse") =>
        /\ \A n \in 1..Len(out.result) :
               \A k \in 1..Len(ReturnedIds(out.result)[n]) :
                   ReturnedIds(out.result)[n][k] \in 1..nextId
        /\ \A m, n \in 1..Len(out.result) :
               \A j \in 1..Len(ReturnedIds(out.result)[m]) :
                   \A k \in 1..Len(ReturnedIds(out.result)[n]) :
                       (<<m, j>> # <<n, k>>) =>
                           (ReturnedIds(out.result)[m][j]
                                # ReturnedIds(out.result)[n][k])

\* the lines of the text with something other than whitespace on them,
\* each by the number of line breaks before it
NonBlankLines(text) ==
    {Cardinality({k \in 1..(i - 1) : text[k] = "\n"}) :
        i \in {j \in 1..Len(text) : text[j] \notin WhiteChars}}

\* the argument of json.js parse is a string JSON.parse rejects, or it is or
\* decodes to a value that is not an array
DegenerateJson(input) ==
    IF input.isString
    THEN ~JSONparse(input.text).ok \/ ~JSONparse(input.text).value.isArray
    ELSE ~input.value.isArray

\* C23: json.js parse returns the empty array, and does not throw, for a
\* string that is not JSON and for a value that is not an array; csv.js parse
\* returns the empty array for a text with fewer than two lines that are not
\* blank.
C23_DegenerateInputIsEmpty ==
    /\ (out.op = "entry" /\ DegenerateJson(inp.input)) =>
           (~out.threw /\ out.result = <<>>)
    /\ (out.op = "parse" /\ inp.fn = "parseCSV"
            /\ Cardinality(NonBlankLines(inp.text)) < 2) =>
           (out.result = <<>>)

\* C23 witness: parse has returned for a string JSON.parse rejects
C23_Witness ==
    /\ out.op = "entry"
    /\ inp.input.isString
    /\ ~JSONparse(inp.input.text).ok
    /\ inp.input.text # <<>>

\* C24 as stated: json.js parse returns a result, and does not raise, for
\* every decoded array, its elements being objects or null and its field
\* values strings, missing or numbers.
C24_ParseNeverRaises ==
    (out.op = "entry") => ~out.threw

\* the canonical name the table gives the header, Null when the header is
\* not a key of the table
TableName(mappings, header) ==
    IF \E n \in 1..Len(mappings) : mappings[n].original = header
    THEN mappings[CHOOSE n \in 1..Len(mappings) :
                      mappings[n].original = header].mapped
    ELSE Null

\* C25 as stated: normalizeHeader answers company (employee) with the table's
\* canonical name exactly when the trimmed header is a key of the company
\* (employee) table, and otherwise unknown with the trimmed header in lower
\* case, every run of whitespace replaced by one underscore; the value under
\* an unknown header is in neither the company nor the employee sub-record.
C25_HeaderMapping ==
    (out.op = "header") =>
        LET t == trim(inp.header)
        IN  /\ (TableName(CompanyMappings, t) # Null) =>
                   (out.result = [key |-> TableName(CompanyMappings, t),
                                  type |-> "company"])
            /\ (TableName(CompanyMappings, t) = Null
                    /\ TableName(EmployeeMappings, t) # Null) =>
                   (out.result = [key |-> TableName(EmployeeMappings, t),
                                  type |-> "employee"])
            /\ (TableName(CompanyMappings, t) = Null
                    /\ TableName(EmployeeMappings, t) = Null) =>
                   /\ out.result =
                          [key |-> replaceWhitespaceRuns(toLowerCase(t), "_"),
                           type |-> "unknown"]
                   /\ DOMAIN out.companyData = {}
                   /\ DOMAIN out.employeeData = {}

\* the same for the headers that are not property names of Object.prototype
C25_HeaderMappingOnOwnNames ==
    (trim(inp.header) \notin ObjectPrototypeKeys) => C25_HeaderMapping

\* the companies with every id taken out
WithoutIds(companies) ==
    [n \in 1..Len(companies) |->
        [companies[n] EXCEPT
            !.id = 0,
            !.employees = [k \in 1..Len(companies[n].employees) |->
                              [companies[n].employees[k] EXCEPT !.id = 0]]]]

\* some value of some row has a line break in it
HasLineBreak(rows) ==
    \E n \in 1..Len(rows) : \E h \in DOMAIN rows[n] :
        \E i \in 1..Len(rows[n][h]) : rows[n][h][i] = "\n"

\* C21 as stated: for a flat list of rows under the recognized headers with
\* trimmed string values, parseJSON of the rows and parseCSV of the CSV text of
\* the rows return the same companies in the same order with the same fields
\* and the same employees, ids apart.
C21_SameAsCSV ==
    (out.op = "both") => (WithoutIds(out.json) = WithoutIds(out.csv))

\* the same for rows none of whose values has a line break
C21_SameAsCSVOnSingleLines ==
    (out.op = "both" /\ ~HasLineBreak(inp.data)) =>
        (WithoutIds(out.json) = WithoutIds(out.csv))

----------------------------------------------------------------------------
(* Properties of the two drivers *)

\* the last company a run has issued a write for, 0 before the first
LastIssued(run) ==
    IF run.issued = <<>> THEN 0 ELSE run.issued[Len(run.issued)]

\* a run waits for a write exactly when it has one pending, which is the
\* write of the last company it issued one for; the writes were issued in
\* the order of the input
OneWriteInFlight(run) ==
    /\ (run.pc = "write") <=> (run.pending.kind # "none")
    /\ (run.pc = "write") => (run.issued # <<>> /\ LastIssued(run) = run.i)
    /\ \A m, n \in 1..Len(run.issued) : (m < n) => (run.issued[m] < run.issued[n])

\* the write the run was waiting for is in the collection after the step
Settles(run) ==
    /\ run.pc = "write"
    /\ \/ /\ run.pending.kind = "update"
          /\ \E n \in 1..Len(store') :
                 /\ store'[n].id = run.pending.id
                 /\ store'[n].employees = run.pending.employees
       \/ /\ run.pending.kind = "add"
          /\ Len(store') = Len(store) + 1
          /\ \E n \in 1..Len(store') :
                 /\ store'[n].name = run.pending.name
                 /\ store'[n].employees = run.pending.employees

\* the step issues the write of a later company, which the run then waits for
IssuesNext(run, after) ==
    /\ after.pc = "write"
    /\ after.issued = Append(run.issued, after.i)
    /\ after.i > LastIssued(run)
    /\ after.i > run.i

\* the step takes a run of importToFirebase to a later company or to another
\* write only from the first getAll or from the write it was waiting for,
\* which has settled
ImportStepSequential ==
    /\ (imp'.issued # imp.issued) =>
           \/ imp'.pc = "getAll" /\ imp'.issued = <<>>
           \/ IssuesNext(imp, imp') /\ (imp.pc = "getAll" \/ Settles(imp))
    /\ (imp'.i # imp.i /\ imp'.pc # "getAll") =>
           /\ imp'.i > imp.i
           /\ imp.pc = "getAll" \/ Settles(imp)
    /\ (imp.pc = "write" /\ imp'.pc \notin {"write", "sync"}) =>
           (imp'.pc = "failed" /\ imp'.issued = imp.issued)

\* the same of a run of deduplicateDatabase, whose work on a company is the
\* fold of its employee list
DedupStepSequential ==
    /\ (dedup'.issued # dedup.issued) =>
           \/ dedup'.pc = "getAll" /\ dedup'.issued = <<>>
           \/ IssuesNext(dedup, dedup') /\ (dedup.pc = "getAll" \/ Settles(dedup))
    /\ (dedup'.folds # dedup.folds /\ dedup'.pc # "getAll") =>
           /\ Len(dedup'.folds) > Len(dedup.folds)
           /\ \A n \in 1..Len(dedup'.folds) :
                  (n > Len(dedup.folds)) => (dedup'.folds[n].k > dedup.i)
           /\ \A m, n \in 1..Len(dedup'.folds) :
                  (m < n) => (dedup'.folds[m].k < dedup'.folds[n].k)
           /\ dedup.pc = "getAll" \/ Settles(dedup)
    /\ (dedup.pc = "write" /\ dedup'.pc \notin {"write", "sync"}) =>
           (dedup'.pc = "failed" /\ dedup'.issued = dedup.issued)

\* C20: a run of importToFirebase or of deduplicateDatabase issues its writes
\* in the order of its input, has at most one of them in flight, and starts
\* the work and the write of a later company only in the step in which the
\* write it was waiting for has succeeded; a failed write ends the run.
C20_WritesSequential ==
    [](OneWriteInFlight(imp) /\ OneWriteInFlight(dedup))
        /\ [][ImportStepSequential /\ DedupStepSequential]_vars

\* C20 witness: a run of each driver is waiting for the write of its second
\* company, the first having settled
C20_Witness ==
    /\ imp.pc = "write"
    /\ imp.issued = <<1, 2>>
    /\ dedup.pc = "write"
    /\ dedup.issued = <<1, 2>>
    /\ Len(dedup.folds) = 2

\* ids of the employees stored for the company with id cid
StoredIds(docs, cid) ==
    UNION {{docs[n].employees[j].id : j \in 1..Len(docs[n].employees)} :
              n \in {m \in 1..Len(docs) : docs[m].id = cid}}

\* ids of the employees the loop of a fold merged into another entry
MergedIds(f) ==
    {f.steps[m].emp.id : m \in {n \in 1..Len(f.steps) : f.steps[n].kind = "merge"}}

\* ids of the employees the self-dedup run d merged into another entry of the
\* list of the company with id cid
MergedAway(d, cid) ==
    UNION {MergedIds(d.folds[n]) :
              n \in {m \in 1..Len(d.folds) :
                        d.storeBefore[d.folds[m].k].id = cid}}

\* ids under which the steps appended an employee
AppendedIds(steps) ==
    {steps[m].id : m \in {n \in 1..Len(steps) : steps[n].kind = "Added"}}

\* the employees import run h appended to persisted company target for
\* parsed company: each one is stored, or the self-dedup run d has merged it
\* into another entry
AppendedKept(h, d, docs, target, company) ==
    AppendedIds(reconcileCompany(NoRun, target, company, 0).steps)
        \subseteq (StoredIds(docs, target.id) \cup MergedAway(d, target.id))

\* no employee appended by import run h is missing from docs
ImportKept(h, d, docs) ==
    \A c \in 1..Len(h.batch) :
        existingMapHas(h.storeBefore, toLowerCase(h.batch[c].name)) =>
            AppendedKept(h, d, docs,
                         existingMapGet(h.storeBefore,
                                        toLowerCase(h.batch[c].name)),
                         h.batch[c])

\* no employee self-dedup run d merged into another entry is stored again
DedupKept(d, docs) ==
    \A n \in 1..Len(d.folds) :
        MergedIds(d.folds[n])
            \cap StoredIds(docs, d.storeBefore[d.folds[n].k].id) = {}

\* both drivers have returned
BothFinished ==
    /\ running(imp) = 0
    /\ running(dedup) = 0

\* a run of each driver is awaiting a persistence call: one was started
\* while the other one was awaiting
BothRunning ==
    /\ running(imp) = 1
    /\ running(dedup) = 1

\* the collection holds every employee the completed import runs appended
\* to a persisted company, as stored record or merged by the self-dedup, and
\* no employee a completed self-dedup run merged away
NothingLost ==
    \A r \in 1..Len(hist), q \in 1..Len(dhist) :
        (hist[r].ok /\ dhist[q].ok /\ DistinctNames(hist[r].batch))
            => /\ ImportKept(hist[r], dhist[q], store)
               /\ DedupKept(dhist[q], store)

\* nothing of import run h and self-dedup run d is lost in docs
KeptOf(h, d, docs) ==
    DistinctNames(h.batch) =>
        /\ ImportKept(h, d, docs)
        /\ DedupKept(d, docs)

\* both drivers have issued all their writes and await their final getAll,
\* which changes nothing: the collection is what it will be when both have
\* returned
BothAtSync ==
    /\ BothRunning
    /\ imp.pc = "sync"
    /\ dedup.pc = "sync"

\* C29 as stated: when an import run and a self-dedup run were awaiting
\* persistence calls at the same time (one was started while the other was
\* awaiting), all their writes have succeeded and one of them completes, the
\* collection, which the final getAll of the other leaves as it is, holds
\* every employee the import appended to a persisted company (as stored
\* record or merged by the self-dedup) and no employee the self-dedup merged
\* away.
C29_OverlappingRunsLoseNothing ==
    [][(BothAtSync /\ (imp'.pc = "done" \/ dedup'.pc = "done"))
           => KeptOf(outcome(imp, TRUE, store'),
                     dedupOutcome(dedup, TRUE, store'), store')]_vars

\* the same without the premise: runs that were not awaiting at the same
\* time are among the behaviours
C29_RunsLoseNothing ==
    BothFinished => NothingLost

============================================================================
